---- MODULE Spec2Model ----
(***************************************************************************)
(* A model of the documentation build pipeline of mega65-user-guide:       *)
(*   tools/flatten_tex.py            the include flattener                 *)
(*   tools/tex_preprocess_for_pandoc.py  the LaTeX normalizer              *)
(*   tools/postprocess_html_refs.py  the HTML reference resolver           *)
(* Each tool is a sequential program; it is modelled as a state machine    *)
(* whose actions are the steps of its code.  A specification per tool      *)
(* (SpecFlatten, SpecBody, ...) starts the tool on every input of a        *)
(* bounded family and leaves the variables of the other tools idle.        *)
(***************************************************************************)
EXTENDS Integers, Sequences, FiniteSets, TLC

VARIABLES
    \* ---- flatten_tex.py
    fs,          \* the file system: path -> "missing" | "unreadable" | lines
    visited,     \* the module-level set `visited`
    stack,       \* the call stack of flatten(): frames [path, pc, i]
    out_lines,   \* the list `out_lines` of main()
    fpc,         \* where main() of flatten_tex.py stands
    \* ---- body extraction (flatten_tex.py main, extract_body)
    btext,       \* the text handed to the body extraction
    flat_body,   \* `body` of main() of flatten_tex.py
    norm_body,   \* the result of extract_body()
    bdone,       \* which of the two extractions have run
    \* ---- postprocess_html_refs.py
    dir,         \* the output directory: file name -> page content
    input_dir,   \* the directory as it was when main() started (history)
    rename_map,  \* `rename_map` of main(): old name -> new name
    toc_content, \* `toc_content` of main()
    search_index,\* the content of search-index.json
    id_map,      \* `id_map` of main(): identifier -> [file, text]
    pages,       \* sorted(outdir.glob("*.html")) of the loop of main()
    pos,         \* the index in `pages` of the page the loop stands at
    rpc,         \* where main() of postprocess_html_refs.py stands
    run,         \* which run of the resolver on this directory this is
    prev_dir,    \* the directory after the previous run (history)
    prev_index,  \* search-index.json after the previous run (history)
    \* ---- tex_preprocess_for_pandoc.py, one function at a time
    ntext,       \* the text handed to the function
    nfiles,      \* the files that exist under the working directory
    nout,        \* what the function returns
    npc,         \* "idle", "start" (not yet called) or "done" (returned)
    \* ---- the item loops of main() of the resolver and of the font tools
    batch_tool,      \* the tool whose loop runs
    batch_items,     \* the items of the loop, each "ok", "bad" or "absent"
    batch_pos,       \* the index of the item the loop stands at
    batch_processed, \* the indexes of the items processed to the end
    batch_warned,    \* the indexes of the items a warning was printed for
    batch_state,     \* "idle", "running", "finished" or "aborted"
    \* ---- one invocation of a tool from the command line
    cli_tool,    \* the script that is run
    cli_argc,    \* the number of positional arguments: len(sys.argv) - 1
    cli_input,   \* the input path (the fonts, for a font tool): "present",
                 \* "missing" or "unreadable"
    cli_pc,      \* where main() stands: "idle", "start", "write", "exited"
    cli_exit,    \* the exit status of the process, -1 while it runs
    cli_usage,   \* a usage message was printed
    cli_error,   \* an error message or a traceback was printed
    cli_warned,  \* a warning was printed
    cli_reads,   \* a file was read
    cli_writes,  \* a file or a directory was written
    \* ---- rewrite_file of postprocess_html_refs.py on one PDF embed
    emb_src,     \* the src attribute of the <embed>: <<stem, extension>>
    emb_files,   \* the files that exist next to the page
    emb_files0,  \* the files that existed when repl_embed was called (history)
    emb_ink,     \* what inkscape does when run: [raises, writes]
    emb_conv,    \* what ImageMagick convert does when run: [raises, writes]
    emb_pc,      \* where repl_embed/convert_pdf_to_png stands
    emb_calls,   \* the external tools run so far, in order
    emb_new_src, \* what convert_pdf_to_png returns
    emb_out,     \* what repl_embed returns: [tag, src]
    \* ---- repair_font of repair_fonts.py on one font
    src_font,    \* the font file at `src`: [os2, cmap]
    tt,          \* the TTFont object `tt`
    dst_font,    \* the font file written at `dst`
    font_pc,     \* where repair_font stands
    \* ---- main of make_webfonts.py
    fonts,           \* the names of the files under fonts/
    fonts_repaired,  \* fonts-repaired/: [exists, files]
    web_bad,         \* the names of the fonts whose conversion raises
    web_root,        \* `root` of main: "fonts" or "fonts-repaired"
    web_pos,         \* the index in the mapping the loop stands at
    web_converted,   \* the source names "Converted ..." was printed for
    web_warned,      \* the source names "WARN: ..." was printed for
    web_pc,          \* where main of make_webfonts.py stands
    \* ---- rewrite_file of postprocess_html_refs.py on the landing page
    regulatory,  \* regulatory.tex in the working directory
    gitinfo,     \* gitinfo.tex in the working directory
    land_name,   \* path.name of the page
    land_page,   \* new_data in front of line 405
    land_out,    \* new_data behind line 513
    land_pc      \* "idle", "start" or "done"

flattenVars == <<fs, visited, stack, out_lines, fpc>>

bodyVars == <<btext, flat_body, norm_body, bdone>>

resolverVars ==
    <<dir, input_dir, rename_map, toc_content, search_index, id_map, pages,
      pos, rpc, run, prev_dir, prev_index>>

normVars == <<ntext, nfiles, nout, npc>>

batchVars ==
    <<batch_tool, batch_items, batch_pos, batch_processed, batch_warned,
      batch_state>>

cliVars ==
    <<cli_tool, cli_argc, cli_input, cli_pc, cli_exit, cli_usage, cli_error,
      cli_warned, cli_reads, cli_writes>>

embedVars ==
    <<emb_src, emb_files, emb_files0, emb_ink, emb_conv, emb_pc, emb_calls,
      emb_new_src, emb_out>>

fontVars == <<src_font, tt, dst_font, font_pc>>

webVars ==
    <<fonts, fonts_repaired, web_bad, web_root, web_pos, web_converted,
      web_warned, web_pc>>

landVars == <<regulatory, gitinfo, land_name, land_page, land_out, land_pc>>

vars ==
    <<flattenVars, bodyVars, resolverVars, normVars, batchVars, cliVars,
      embedVars, fontVars, webVars, landVars>>

\* The values of the variables of a tool that is not running.
IdleFlatten ==
    /\ fs = <<>> /\ visited = {} /\ stack = <<>> /\ out_lines = <<>>
    /\ fpc = "idle"

IdleBody ==
    /\ btext = <<>> /\ flat_body = <<>> /\ norm_body = <<>> /\ bdone = {}

IdleResolver ==
    /\ dir = <<>> /\ input_dir = <<>> /\ rename_map = <<>>
    /\ toc_content = <<>> /\ search_index = <<>> /\ id_map = <<>>
    /\ pages = <<>> /\ pos = 0 /\ rpc = "idle" /\ run = 0
    /\ prev_dir = <<>> /\ prev_index = <<>>

IdleNormalizer ==
    /\ ntext = <<>> /\ nfiles = {} /\ nout = <<>> /\ npc = "idle"

IdleBatch ==
    /\ batch_tool = "" /\ batch_items = <<>> /\ batch_pos = 0
    /\ batch_processed = {} /\ batch_warned = {} /\ batch_state = "idle"

IdleCli ==
    /\ cli_tool = "" /\ cli_argc = 0 /\ cli_input = "" /\ cli_pc = "idle"
    /\ cli_exit = -1 /\ cli_usage = FALSE /\ cli_error = FALSE
    /\ cli_warned = FALSE /\ cli_reads = FALSE /\ cli_writes = FALSE

NoTool == [raises |-> FALSE, writes |-> FALSE]

IdleEmbed ==
    /\ emb_src = <<>> /\ emb_files = {} /\ emb_files0 = {}
    /\ emb_ink = NoTool /\ emb_conv = NoTool /\ emb_pc = "idle"
    /\ emb_calls = <<>> /\ emb_new_src = <<>>
    /\ emb_out = [tag |-> "", src |-> <<>>]

\* A font file that is not there.
NoFont == [os2 |-> [present |-> FALSE, first |-> 0, last |-> 0], cmap |-> <<>>]

IdleFont ==
    /\ src_font = NoFont /\ tt = NoFont /\ dst_font = NoFont
    /\ font_pc = "idle"

IdleWeb ==
    /\ fonts = {} /\ fonts_repaired = [exists |-> FALSE, files |-> {}]
    /\ web_bad = {} /\ web_root = "" /\ web_pos = 0
    /\ web_converted = {} /\ web_warned = {} /\ web_pc = "idle"

IdleLanding ==
    /\ regulatory = "" /\ gitinfo = "" /\ land_name = ""
    /\ land_page = <<>> /\ land_out = <<>> /\ land_pc = "idle"

\* What a step of one tool leaves alone: the state of the other tools.
notFlatten ==
    <<bodyVars, resolverVars, normVars,
      batchVars, cliVars, embedVars,
      fontVars, webVars, landVars>>

notBody ==
    <<flattenVars, resolverVars, normVars,
      batchVars, cliVars, embedVars,
      fontVars, webVars, landVars>>

notResolver ==
    <<flattenVars, bodyVars, normVars,
      batchVars, cliVars, embedVars,
      fontVars, webVars, landVars>>

notNormalizer ==
    <<flattenVars, bodyVars, resolverVars,
      batchVars, cliVars, embedVars,
      fontVars, webVars, landVars>>

notBatch ==
    <<flattenVars, bodyVars, resolverVars, normVars, cliVars, embedVars,
      fontVars, webVars, landVars>>

notEmbed ==
    <<flattenVars, bodyVars, resolverVars, normVars, batchVars, cliVars,
      fontVars, webVars, landVars>>

notFont ==
    <<flattenVars, bodyVars, resolverVars, normVars, batchVars, cliVars,
      embedVars, webVars, landVars>>

notWeb ==
    <<flattenVars, bodyVars, resolverVars, normVars, batchVars, cliVars,
      embedVars, fontVars, landVars>>

notLanding ==
    <<flattenVars, bodyVars, resolverVars, normVars, batchVars, cliVars,
      embedVars, fontVars, webVars>>

notCli ==
    <<flattenVars, bodyVars, resolverVars, normVars,
      batchVars, embedVars,
      fontVars, webVars, landVars>>

(***************************************************************************)
(*                         tools/flatten_tex.py                            *)
(***************************************************************************)

\* Bound: the most lines a modelled .tex file holds.
MaxLines == 2

\* Bound: the deepest call stack of flatten() the model follows (CPython
\* stops a recursion at its recursion limit).  C1 shows it is never reached.
MaxDepth == 5

\* A path is a file name split into stem and extension; every modelled file
\* lives in one directory, so `base` is the same in every call of flatten.
TEX == ".tex"
Paths == {<<"main", TEX>>, <<"a", TEX>>, <<"b", TEX>>}
RootPath == <<"main", TEX>>

\* The names an \input{...} / \include{...} directive may carry (group 2 of
\* INPUT_RE): with or without the .tex extension.
DirNames == {<<"main", TEX>>, <<"a">>, <<"b">>}

\* name.endswith('.tex')
EndsWithTex(name) == Len(name) > 0 /\ name[Len(name)] = TEX

\* (base / (name if name.endswith('.tex') else name + '.tex')).resolve()
ResolveInclude(name) == IF EndsWithTex(name) THEN name ELSE Append(name, TEX)

\* What a line of a file is: plain text, or a line INPUT_RE matches, with
\* the name it carries.
NoInc == <<>>
LineKinds == {NoInc} \cup DirNames

\* The line number `no` of file `src`; `inc` is the directive's name, or
\* NoInc for a line INPUT_RE does not match.  Two lines of the model are
\* equal only when they are the same line of the same file.
Line(src, no, kind) == [src |-> src, no |-> no, inc |-> kind]

\* INPUT_RE.match(line.strip())
IsDirective(line) == line.inc # NoInc

SeqsUpTo(S, n) == UNION {[1..k -> S] : k \in 0..n}

\* A path of the file system: absent, present but not readable as UTF-8 text
\* (read_text raises), or a text file with its lines.
FileStates ==
    {[st |-> "missing", kinds |-> <<>>], [st |-> "unreadable", kinds |-> <<>>]}
        \cup {[st |-> "file", kinds |-> k] : k \in SeqsUpTo(LineKinds, MaxLines)}

\* The included fragment b.tex is short: absent, unreadable, one text line,
\* or one directive back to a.tex.
LeafStates ==
    {[st |-> "missing", kinds |-> <<>>], [st |-> "unreadable", kinds |-> <<>>],
     [st |-> "file", kinds |-> <<NoInc>>], [st |-> "file", kinds |-> << <<"a">> >>]}

StatesOf(p) == IF p = <<"b", TEX>> THEN LeafStates ELSE FileStates

\* inc.exists()
Exists(p) == p \in DOMAIN fs /\ fs[p].st # "missing"

\* path.read_text() succeeds
Readable(p) == p \in DOMAIN fs /\ fs[p].st = "file"

\* text.splitlines() of a readable file
Lines(p) == [i \in 1..Len(fs[p].kinds) |-> Line(p, i, fs[p].kinds[i])]

Top == stack[Len(stack)]

Frame(path, pc, i) == [path |-> path, pc |-> pc, i |-> i]

SetTop(f) == [stack EXCEPT ![Len(stack)] = f]

Pop == SubSeq(stack, 1, Len(stack) - 1)

\* line 11: path in visited
AlreadyVisitedRootExempt(p) == p \in visited /\ p # RootPath

AlreadyVisited(p) == p \in visited

\* line 13: visited.add(path)
MarkVisitedForgets(p) == visited

MarkVisited(p) == visited \cup {p}

InitFlatten ==
    /\ \E m \in StatesOf(<<"main", TEX>>), a \in StatesOf(<<"a", TEX>>),
          b \in StatesOf(<<"b", TEX>>) :
            fs = (<<"main", TEX>> :> m) @@ (<<"a", TEX>> :> a) @@ (<<"b", TEX>> :> b)
    /\ visited = {}
    /\ stack = <<Frame(RootPath, "enter", 0)>>
    /\ out_lines = <<>>
    /\ fpc = "flatten"
    /\ IdleBody /\ IdleResolver /\ IdleNormalizer /\ IdleBatch /\ IdleCli
    /\ IdleEmbed /\ IdleFont /\ IdleWeb /\ IdleLanding

\* flatten(), lines 11-12: the path was visited, return at once.
EnterVisited ==
    /\ fpc = "flatten" /\ stack # <<>> /\ Top.pc = "enter"
    /\ AlreadyVisited(Top.path)
    /\ stack' = Pop
    /\ UNCHANGED <<fs, visited, out_lines, fpc>>
    /\ UNCHANGED notFlatten

\* lines 13-18: mark the path, the read fails, warn and return.
EnterUnreadable ==
    /\ fpc = "flatten" /\ stack # <<>> /\ Top.pc = "enter"
    /\ ~AlreadyVisited(Top.path)
    /\ ~Readable(Top.path)
    /\ visited' = MarkVisited(Top.path)
    /\ stack' = Pop
    /\ UNCHANGED <<fs, out_lines, fpc>>
    /\ UNCHANGED notFlatten

\* lines 13-15, 19: mark the path, read it, start the loop over its lines.
EnterRead ==
    /\ fpc = "flatten" /\ stack # <<>> /\ Top.pc = "enter"
    /\ ~AlreadyVisited(Top.path)
    /\ Readable(Top.path)
    /\ visited' = MarkVisited(Top.path)
    /\ stack' = SetTop(Frame(Top.path, "loop", 1))
    /\ UNCHANGED <<fs, out_lines, fpc>>
    /\ UNCHANGED notFlatten

\* line 30: out_lines.append(line)
EmitPlainPrepends(line) == <<line>> \o out_lines

EmitPlain(line) == Append(out_lines, line)

\* line 26: out_lines.append(line), the directive line as it was read
EmitMissingDropsLine(line) == out_lines

EmitMissing(line) == Append(out_lines, line)

\* lines 29-30: not a directive, the line is copied.
LinePlain ==
    /\ fpc = "flatten" /\ stack # <<>> /\ Top.pc = "loop"
    /\ Top.i <= Len(Lines(Top.path))
    /\ LET line == Lines(Top.path)[Top.i] IN
        /\ ~IsDirective(line)
        /\ out_lines' = EmitPlain(line)
    /\ stack' = SetTop(Frame(Top.path, "loop", Top.i + 1))
    /\ UNCHANGED <<fs, visited, fpc>>
    /\ UNCHANGED notFlatten

\* lines 21-26: a directive whose file does not exist, the line is copied.
LineMissing ==
    /\ fpc = "flatten" /\ stack # <<>> /\ Top.pc = "loop"
    /\ Top.i <= Len(Lines(Top.path))
    /\ LET line == Lines(Top.path)[Top.i] IN
        /\ IsDirective(line)
        /\ ~Exists(ResolveInclude(line.inc))
        /\ out_lines' = EmitMissing(line)
    /\ stack' = SetTop(Frame(Top.path, "loop", Top.i + 1))
    /\ UNCHANGED <<fs, visited, fpc>>
    /\ UNCHANGED notFlatten

\* lines 21-24, 27-28: a directive whose file exists, flatten() is called
\* on it; the caller resumes at the next line.
LineRecurse ==
    /\ fpc = "flatten" /\ stack # <<>> /\ Top.pc = "loop"
    /\ Top.i <= Len(Lines(Top.path))
    /\ LET line == Lines(Top.path)[Top.i] IN
        /\ IsDirective(line)
        /\ Exists(ResolveInclude(line.inc))
        /\ Len(stack) < MaxDepth
        /\ stack' = Append(SetTop(Frame(Top.path, "loop", Top.i + 1)),
                           Frame(ResolveInclude(line.inc), "enter", 0))
    /\ UNCHANGED <<fs, visited, out_lines, fpc>>
    /\ UNCHANGED notFlatten

\* line 19: the loop is over, flatten() returns.
LoopEnd ==
    /\ fpc = "flatten" /\ stack # <<>> /\ Top.pc = "loop"
    /\ Top.i > Len(Lines(Top.path))
    /\ stack' = Pop
    /\ UNCHANGED <<fs, visited, out_lines, fpc>>
    /\ UNCHANGED notFlatten

\* main(), line 39 returns: the outermost flatten() is over.
FlattenReturn ==
    /\ fpc = "flatten" /\ stack = <<>>
    /\ fpc' = "flattened"
    /\ UNCHANGED <<fs, visited, stack, out_lines>>
    /\ UNCHANGED notFlatten

NextFlatten ==
    \/ EnterVisited
    \/ EnterUnreadable
    \/ EnterRead
    \/ LinePlain
    \/ LineMissing
    \/ LineRecurse
    \/ LoopEnd
    \/ FlattenReturn

\* flatten_tex.py is one sequential process: while a step is possible it is
\* taken.
SpecFlatten == InitFlatten /\ [][NextFlatten]_vars /\ WF_vars(NextFlatten)

(***************************************************************************)
(*                    Claims about the include flattener                   *)
(***************************************************************************)

Flattened == fpc = "flattened"

\* The files flatten() read: they were visited and could be read.
WasRead(p) == p \in visited /\ Readable(p)

\* The positions of out_lines holding `line`.
Occurrences(line) == {k \in 1..Len(out_lines) : out_lines[k] = line}

\* Line i of p is a directive to a file that does not exist.
MissingDirective(p, i) ==
    IsDirective(Lines(p)[i]) /\ ~Exists(ResolveInclude(Lines(p)[i].inc))

\* Line i of p is a directive to a file that exists.
LiveDirective(p, i) ==
    IsDirective(Lines(p)[i]) /\ Exists(ResolveInclude(Lines(p)[i].inc))

\* C1: flatten() terminates on every finite set of files, self-inclusion and
\* mutual inclusion included: the call stack never reaches the depth the
\* model follows, and main() always gets past its call of flatten().
C1_FlattenTerminates == [](Len(stack) < MaxDepth) /\ <>Flattened

\* C1 witness: the run ended on files that include themselves or each other
\* (a.tex was entered from main.tex and holds a directive back to main.tex or
\* to itself).
C1_Witness_CycleTerminated ==
    /\ Flattened
    /\ WasRead(<<"a", TEX>>)
    /\ \E i \in 1..Len(Lines(<<"a", TEX>>)) :
          /\ LiveDirective(<<"a", TEX>>, i)
          /\ ResolveInclude(Lines(<<"a", TEX>>)[i].inc) \in {<<"a", TEX>>, RootPath}

\* C2: in one run no line of a file is emitted twice, and a directive to an
\* existing file never reaches the output itself: a repeated directive adds
\* neither the file's lines nor its own line.
C2_EachFileAtMostOnce ==
    /\ \A j, k \in 1..Len(out_lines) : out_lines[j] = out_lines[k] => j = k
    /\ \A k \in 1..Len(out_lines) :
          IsDirective(out_lines[k]) => ~Exists(ResolveInclude(out_lines[k].inc))

\* C2 witness: the run ended, main.tex names a.tex on two lines and a.tex
\* put a line into the output.
C2_Witness_RepeatedInclude ==
    /\ Flattened
    /\ WasRead(RootPath) /\ WasRead(<<"a", TEX>>)
    /\ Len(Lines(RootPath)) = 2
    /\ \A i \in 1..2 : Lines(RootPath)[i].inc = <<"a">>
    /\ \E k \in 1..Len(out_lines) : out_lines[k].src = <<"a", TEX>>

\* C3: once the run is over, every directive to a missing file, in every file
\* that was read, stands in the output exactly once and unchanged, and the
\* line after it was processed too (a plain line follows it at once).
C3_MissingIncludeKept ==
    Flattened =>
        \A p \in Paths : WasRead(p) =>
            \A i \in 1..Len(Lines(p)) : MissingDirective(p, i) =>
                /\ Cardinality(Occurrences(Lines(p)[i])) = 1
                /\ (i < Len(Lines(p)) /\ ~IsDirective(Lines(p)[i + 1])) =>
                      \E k \in Occurrences(Lines(p)[i]) :
                          /\ k < Len(out_lines)
                          /\ out_lines[k + 1] = Lines(p)[i + 1]

\* C3 witness: the run ended after a directive to the missing b.tex that a
\* plain line follows.
C3_Witness_MissingThenPlain ==
    /\ Flattened
    /\ \E p \in Paths : WasRead(p) /\ Len(Lines(p)) = 2
          /\ MissingDirective(p, 1) /\ ~IsDirective(Lines(p)[2])

\* The depth-first expansion of a file, with the paths met so far: a plain
\* line and a directive to a missing file stand for themselves, the first
\* directive to an existing file stands for that file's expansion, a later
\* one for nothing.
RECURSIVE Expand(_, _), ExpandFrom(_, _, _)
Expand(p, seen) ==
    IF p \in seen THEN [out |-> <<>>, seen |-> seen]
    ELSE IF ~Readable(p) THEN [out |-> <<>>, seen |-> seen \cup {p}]
    ELSE ExpandFrom(p, 1, seen \cup {p})

ExpandFrom(p, i, seen) ==
    IF i > Len(Lines(p)) THEN [out |-> <<>>, seen |-> seen]
    ELSE IF LiveDirective(p, i)
        THEN LET sub == Expand(ResolveInclude(Lines(p)[i].inc), seen)
                 rest == ExpandFrom(p, i + 1, sub.seen)
             IN [out |-> sub.out \o rest.out, seen |-> rest.seen]
        ELSE LET rest == ExpandFrom(p, i + 1, seen)
             IN [out |-> <<Lines(p)[i]>> \o rest.out, seen |-> rest.seen]

HasNoDirective(p) == \A i \in 1..Len(Lines(p)) : ~IsDirective(Lines(p)[i])

\* C4: when flatten() returns, out_lines is the depth-first expansion of the
\* root document; a readable root without directives comes out line for line.
C4_DepthFirstExpansion ==
    Flattened =>
        /\ out_lines = Expand(RootPath, {}).out
        /\ (Readable(RootPath) /\ HasNoDirective(RootPath)) =>
              out_lines = Lines(RootPath)

\* C4 witness: the run ended with lines of main.tex, a.tex and b.tex in the
\* output, b.tex reached through a.tex, and a line of main.tex after them.
C4_Witness_NestedExpansion ==
    /\ Flattened
    /\ Len(out_lines) >= 3
    /\ \E k \in 1..Len(out_lines) - 1 :
          /\ out_lines[k].src = <<"b", TEX>>
          /\ out_lines[k + 1].src = RootPath
    /\ \E i \in 1..Len(Lines(<<"a", TEX>>)) : Lines(<<"a", TEX>>)[i].inc = <<"b">>
    /\ \E k \in 1..Len(out_lines) : out_lines[k].src = <<"a", TEX>>

(***************************************************************************)
(*        Body extraction: flatten_tex.py main() and extract_body()        *)
(***************************************************************************)

\* Bound: the most tokens of a text handed to the body extraction.
MaxText == 4

\* A text is a sequence of tokens: "B" is \begin{document}, "E" is
\* \end{document}, "Bi" and "Ei" are the same delimiters in another letter
\* case (\BEGIN{DOCUMENT}), "x" is any other character.
TextTokens == {"x", "B", "E", "Bi", "Ei"}

\* The least and the greatest of a non-empty set of positions.
Least(S) == CHOOSE i \in S : \A j \in S : i <= j

Greatest(S) == CHOOSE i \in S : \A j \in S : j <= i

Positions(text, toks) == {i \in 1..Len(text) : text[i] \in toks}

\* flatten_tex.py, lines 42-46:
\* re.search(r"\\begin\{document\}(.*)\\end\{document\}", text, re.DOTALL):
\* the leftmost \begin{document} an \end{document} follows, and, (.*) being
\* greedy, the last \end{document} of the text; letter case matters.
FlattenBody(text) ==
    LET begins == Positions(text, {"B"})
        ends == Positions(text, {"E"})
    IN  IF begins = {} \/ {j \in ends : j > Least(begins)} = {}
        THEN text
        ELSE SubSeq(text, Least(begins) + 1, Greatest(ends) - 1)

\* tex_preprocess_for_pandoc.py, lines 7-8 and 19-24: the first match of
\* BEGIN_DOC and the first match of END_DOC, both re.I; the interior is kept
\* when end.start() > start.end(), that is when the first end delimiter
\* stands after the first begin delimiter with at least one character
\* between them.
ExtractBody(text) ==
    LET begins == Positions(text, {"B", "Bi"})
        ends == Positions(text, {"E", "Ei"})
    IN  IF begins # {} /\ ends # {} /\ Least(ends) > Least(begins) + 1
        THEN SubSeq(text, Least(begins) + 1, Least(ends) - 1)
        ELSE text

InitBody ==
    /\ btext \in SeqsUpTo(TextTokens, MaxText)
    /\ flat_body = <<>> /\ norm_body = <<>> /\ bdone = {}
    /\ IdleFlatten /\ IdleResolver /\ IdleNormalizer /\ IdleBatch /\ IdleCli
    /\ IdleEmbed /\ IdleFont /\ IdleWeb /\ IdleLanding

\* flatten_tex.py main(), lines 41-47, on the flattened text.
FlattenExtract ==
    /\ fpc = "idle" /\ "flatten" \notin bdone
    /\ flat_body' = FlattenBody(btext)
    /\ bdone' = bdone \cup {"flatten"}
    /\ UNCHANGED <<btext, norm_body>>
    /\ UNCHANGED notBody

\* tex_preprocess_for_pandoc.py main(), line 421, on the same text.
NormalizerExtract ==
    /\ fpc = "idle" /\ "normalize" \notin bdone
    /\ norm_body' = ExtractBody(btext)
    /\ bdone' = bdone \cup {"normalize"}
    /\ UNCHANGED <<btext, flat_body>>
    /\ UNCHANGED notBody

NextBody ==
    \/ FlattenExtract
    \/ NormalizerExtract

SpecBody == InitBody /\ [][NextBody]_vars

\* C5: on every text the flattener and the normalizer keep the same
\* substring (the interior of the delimiter pair or the whole text).
C5_SameBodyRule ==
    bdone = {"flatten", "normalize"} => flat_body = norm_body

(***************************************************************************)
(*                    tools/postprocess_html_refs.py                       *)
(***************************************************************************)

\* Bound: the most body tokens of the page a:b.html.
MaxTokens == 2

\* Bound: how many times the resolver is run on one directory (SpecRerun).
MaxRuns == 2

\* A file name is the sequence of its parts, so that renaming acts on it.
HTML == ".html"
NameAB == <<"a", ":", "b", HTML>>
NameC == <<"c", HTML>>
NameIndex == <<"index", HTML>>

\* rename_colon_files, line 594: old_path.name.replace(":", "_")
Sanitize(name) == [i \in 1..Len(name) |-> IF name[i] = ":" THEN "_" ELSE name[i]]

\* outdir.glob("*:*")
HasColon(name) == \E i \in 1..Len(name) : name[i] = ":"

\* outdir.glob("*.html")
IsHtml(name) == Len(name) > 0 /\ name[Len(name)] = HTML

\* The modelled names in the order sorted() gives them
\* ("a:b.html" < "a_b.html" < "c.html" < "index.html").
NameOrder == <<NameAB, Sanitize(NameAB), NameC, NameIndex>>

\* sorted(root.glob("*.html")) for a directory d
SortedPages(d) == SelectSeq(NameOrder, LAMBDA n : n \in DOMAIN d /\ IsHtml(n))

\* A page is a sequence of tokens.  A token is a piece of the page one of
\* the regular expressions of the resolver matches as a whole:
\*   "h"        <hN id="id">text</hN>
\*   "el"       another element with id="id"
\*   "vref"     \vref{id}           "bookvref"  \bookvref{id}
\*   "a"        <a href="PRE FILE #ID" CLS>text</a>; FILE = <<>> and PRE = ""
\*              for a local anchor href="#id"; ID = "" without a fragment;
\*              cls lists the class attributes the tag carries, each by the
\*              number of times the word `active` stands in it
\*   "head_end" </head>   "body" <body>   "body_end" </body>
\*   "script"   the search script of add_search_script
\*   "sb_open", "search_input", "search_results", "nav_toc", "nav_close",
\*   "main_open", "div_close"   the pieces of the sidebar of
\*              add_sidebar_to_html; "nav_toc" ... "nav_close" is also the
\*              table of contents pandoc writes into index.html
Tok(k, id, text, pre, file, cls) ==
    [k |-> k, id |-> id, text |-> text, pre |-> pre, file |-> file, cls |-> cls]

Mark(k) == Tok(k, "", "", "", <<>>, <<>>)

IdEl(k, id) == Tok(k, id, "", "", <<>>, <<>>)

Heading(id, text) == Tok("h", id, text, "", <<>>, <<>>)

Vref(id) == Tok("vref", id, "", "", <<>>, <<>>)

BookVref(id) == Tok("bookvref", id, "", "", <<>>, <<>>)

\* <a href="{pre}{file}#{id}">{text}</a>
Link(pre, file, id, text) == Tok("a", id, text, pre, file, <<>>)

\* <a href="#{id}">{text}</a>
LocalLink(id, text) == Link("", <<>>, id, text)

IsLocalLink(t) == t.k = "a" /\ t.pre = "" /\ t.file = <<>> /\ t.id # ""

\* strip_tags, lines 26-28: TAG_RE.sub("", html).strip(), on the inner HTML
\* values of the model.
StripTags(inner) ==
    CASE inner = "<em>Foo</em>" -> "Foo"
      [] inner = " x " -> "x"
      [] OTHER -> inner

\* Python's `a or b` on strings
Or(a, b) == IF a = "" THEN b ELSE a

\* The tokens a page body of the model is made of.
BodyTokens ==
    {Heading("x", "<em>Foo</em>"), Heading("x", ""),
     Vref("x"), BookVref("x"), LocalLink("x", " x "),
     Link("", NameAB, "", "ch"), Link("", NameAB, "x", "ch"),
     Link("sub/", NameAB, "", "ch")}

\* A standalone page as pandoc writes it, and a page without <head>/<body>.
FullPage(body) == <<Mark("head_end"), Mark("body")>> \o body \o <<Mark("body_end")>>

TocNav(items) == <<IdEl("nav_toc", "TOC")>> \o items \o <<Mark("nav_close")>>

\* The directories the resolver is started on: a:b.html with up to
\* MaxTokens body tokens, c.html with at most one, as a page or as a bare
\* fragment, and index.html absent or holding a table of contents.
PagesAB == {FullPage(b) : b \in SeqsUpTo(BodyTokens, MaxTokens)}

PagesC ==
    {FullPage(b) : b \in SeqsUpTo(BodyTokens, 1)} \cup SeqsUpTo(BodyTokens, 1)

PagesIndex ==
    {FullPage(TocNav(<<Link("", NameAB, "x", "ch")>>)),
     FullPage(TocNav(<<Link("", NameC, "", "ch")>>))}

Directories ==
    {(NameAB :> ab) @@ (NameC :> c) : ab \in PagesAB, c \in PagesC}
        \cup {(NameAB :> ab) @@ (NameC :> c) @@ (NameIndex :> ix) :
                ab \in PagesAB, c \in PagesC, ix \in PagesIndex}

\* ---- small helpers on sequences and finite maps

Put(map, key, val) ==
    [k \in DOMAIN map \cup {key} |-> IF k = key THEN val ELSE map[k]]

InsertAt(c, i, ins) == SubSeq(c, 1, i - 1) \o ins \o SubSeq(c, i, Len(c))

\* How many times token t stands in c.
Count(c, t) == Cardinality({i \in 1..Len(c) : c[i] = t})

\* ---- rename_colon_files, lines 585-602

\* The orders in which outdir.glob("*:*") may list the files of S.
Orders(S) ==
    {o \in [1..Cardinality(S) -> S] : \A i, j \in DOMAIN o : o[i] = o[j] => i = j}

\* old_path.rename(new_path): the file moves to the new name and replaces
\* what stood there.
RenameFile(d, old) ==
    [n \in (DOMAIN d \ {old}) \cup {Sanitize(old)} |->
        IF n = Sanitize(old) THEN d[old] ELSE d[n]]

RECURSIVE RenameAll(_, _)
RenameAll(d, order) ==
    IF order = <<>> THEN d
    ELSE RenameAll(IF Head(order) \in DOMAIN d THEN RenameFile(d, Head(order)) ELSE d,
                   Tail(order))

RenameMapOf(order) ==
    [old \in {order[i] : i \in DOMAIN order} |-> Sanitize(old)]

\* ---- extract_toc_from_index, lines 518-532

\* re.search(r'<nav id="TOC"[^>]*>(.*?)</nav>'): what stands between the
\* first TOC nav and the first </nav> after it; "" without index.html or
\* without such a nav.
ExtractToc(d) ==
    IF NameIndex \notin DOMAIN d THEN <<>>
    ELSE LET c == d[NameIndex]
             opens == {i \in 1..Len(c) : c[i].k = "nav_toc"}
             closes == {j \in 1..Len(c) : c[j].k = "nav_close"}
         IN  IF opens = {} \/ {j \in closes : j > Least(opens)} = {} THEN <<>>
             ELSE SubSeq(c, Least(opens) + 1,
                         Least({j \in closes : j > Least(opens)}) - 1)

\* ---- create_search_index, lines 635-729

\* The text a token shows: get_text() followed by the removal of LaTeX
\* commands (lines 673-679), which deletes \vref{..} and \bookvref{..}.
ShownText(t) ==
    IF t.k = "h" THEN <<StripTags(t.text)>>
    ELSE IF t.k = "a" THEN <<StripTags(t.text)>>
    ELSE <<>>

RECURSIVE ShownTexts(_)
ShownTexts(c) ==
    IF c = <<>> THEN <<>> ELSE ShownText(Head(c)) \o ShownTexts(Tail(c))

\* lines 649-669: the text of div.main-content when the page has one, else
\* the text of <body> without its nav elements, else the whole text.
RECURSIVE DropNavs(_, _)
DropNavs(c, inside) ==
    IF c = <<>> THEN <<>>
    ELSE IF Head(c).k = "nav_toc" THEN DropNavs(Tail(c), TRUE)
    ELSE IF Head(c).k = "nav_close" THEN DropNavs(Tail(c), FALSE)
    ELSE IF inside THEN DropNavs(Tail(c), TRUE)
    ELSE <<Head(c)>> \o DropNavs(Tail(c), FALSE)

SearchText(c) ==
    LET mains == {i \in 1..Len(c) : c[i].k = "main_open"}
        bodies == {i \in 1..Len(c) : c[i].k = "body"}
    IN  IF mains # {} THEN ShownTexts(SubSeq(c, Least(mains) + 1, Len(c)))
        ELSE IF bodies # {}
            THEN ShownTexts(DropNavs(SubSeq(c, Least(bodies) + 1, Len(c)), FALSE))
        ELSE ShownTexts(c)

\* line 641: html_path.read_text(encoding="utf-8") raises on a page that
\* holds bytes that are no UTF-8; the token "bad_utf8" stands for them.
RaisesOnRead(c) == \E i \in 1..Len(c) : c[i].k = "bad_utf8"

\* html_path.stem
Stem(name) == SubSeq(name, 1, Len(name) - 1)

\* lines 645-646: the text of the first <title> (token "title"), else the
\* stem of the file name.
TitleOf(c, name) ==
    LET titles == {i \in 1..Len(c) : c[i].k = "title"}
    IN  IF titles # {} THEN <<c[Least(titles)].text>> ELSE Stem(name)

\* lines 682-709: the texts of the headings of div.main-content, or of the
\* whole page when it has none, the empty ones left out.
HeadingTextsOf(c) ==
    LET mains == {i \in 1..Len(c) : c[i].k = "main_open"}
        from == IF mains # {} THEN Least(mains) + 1 ELSE 1
        hs == SelectSeq(SubSeq(c, from, Len(c)),
                        LAMBDA t : t.k = "h" /\ StripTags(t.text) # "")
    IN  [i \in 1..Len(hs) |-> StripTags(hs[i].text)]

\* lines 713-719: the record of one page.
SearchRecord(c, name) ==
    [title |-> TitleOf(c, name),
     url |-> name,
     content |-> SearchText(c),
     headings |-> HeadingTextsOf(c),
     filename |-> Stem(name)]

\* The loop of a create_search_index that leaves the loop at the first
\* page that raises.
SearchIndexStopsAtBadPage(d) ==
    LET ps == SortedPages(d)
        bad == {i \in 1..Len(ps) : RaisesOnRead(d[ps[i]])}
        n == IF bad = {} THEN Len(ps) ELSE Least(bad) - 1
    IN  [i \in 1..n |-> SearchRecord(d[ps[i]], ps[i])]

\* create_search_index, lines 639-725: one record per page in sorted
\* order; a page that raises is left out with a warning (lines 721-722).
SearchIndexOf(d) ==
    LET ps == SelectSeq(SortedPages(d), LAMBDA n : ~RaisesOnRead(d[n]))
    IN  [i \in 1..Len(ps) |-> SearchRecord(d[ps[i]], ps[i])]

\* ---- build_id_map, lines 30-60

\* HEADING_RE and ANY_ID_RE: the tokens that carry an id attribute.
HasId(t) == t.k \in {"h", "el", "nav_toc", "search_input", "search_results"}

\* lines 39-44: every heading of the page, in page order, overwrites the
\* entry of its id with (this file, text or hid).
RECURSIVE HeadingsIntoFirstWins(_, _, _, _)
HeadingsIntoFirstWins(map, c, i, name) ==
    IF i > Len(c) THEN map
    ELSE HeadingsIntoFirstWins(
            IF c[i].k = "h" /\ c[i].id \notin DOMAIN map
            THEN Put(map, c[i].id,
                     [file |-> name, text |-> Or(StripTags(c[i].text), c[i].id)])
            ELSE map,
            c, i + 1, name)

RECURSIVE HeadingsInto(_, _, _, _)
HeadingsInto(map, c, i, name) ==
    IF i > Len(c) THEN map
    ELSE HeadingsInto(
            IF c[i].k = "h"
            THEN Put(map, c[i].id,
                     [file |-> name, text |-> Or(StripTags(c[i].text), c[i].id)])
            ELSE map,
            c, i + 1, name)

\* lines 53-58: the text of the nearest heading at or before position i,
\* "" (None) when there is none.
NearestHeadingText(c, i) ==
    LET hs == {j \in 1..i : c[j].k = "h"}
    IN  IF hs = {} THEN "" ELSE StripTags(c[Greatest(hs)].text)

\* lines 47-59: every other id not yet in the map gets (this file, text of
\* the nearest previous heading or the id).
RECURSIVE ElementsIntoOverwrites(_, _, _, _)
ElementsIntoOverwrites(map, c, i, name) ==
    IF i > Len(c) THEN map
    ELSE ElementsIntoOverwrites(
            IF c[i].k = "el"
            THEN Put(map, c[i].id,
                     [file |-> name, text |-> Or(NearestHeadingText(c, i), c[i].id)])
            ELSE map,
            c, i + 1, name)

RECURSIVE ElementsInto(_, _, _, _)
ElementsInto(map, c, i, name) ==
    IF i > Len(c) THEN map
    ELSE ElementsInto(
            IF HasId(c[i]) /\ c[i].id \notin DOMAIN map
            THEN Put(map, c[i].id,
                     [file |-> name, text |-> Or(NearestHeadingText(c, i), c[i].id)])
            ELSE map,
            c, i + 1, name)

RECURSIVE BuildOver(_, _, _)
BuildOver(map, d, names) ==
    IF names = <<>> THEN map
    ELSE BuildOver(
            ElementsInto(HeadingsInto(map, d[Head(names)], 1, Head(names)),
                         d[Head(names)], 1, Head(names)),
            d, Tail(names))

BuildIdMap(d) == BuildOver(<<>>, d, SortedPages(d))

\* ---- add_sidebar_to_html, lines 534-583

\* lines 544-553: the sidebar, its search box and the table of contents,
\* and the opening of div.main-content.
SidebarOf(toc) ==
    <<Mark("sb_open"), IdEl("search_input", "searchInput"),
      IdEl("search_results", "searchResults"), IdEl("nav_toc", "TOC")>>
        \o toc \o <<Mark("nav_close"), Mark("main_open")>>

\* lines 571-575: in an <a> whose href is `current`, the last class
\* attribute gains the word `active`.
AddActiveWord(t, current) ==
    IF t.k = "a" /\ t.pre = "" /\ t.id = "" /\ t.file = current /\ t.cls # <<>>
    THEN [t EXCEPT !.cls[Len(t.cls)] = @ + 1]
    ELSE t

\* lines 577-581: every <a> whose href is `current` gains class="active".
AddActiveClass(t, current) ==
    IF t.k = "a" /\ t.pre = "" /\ t.id = "" /\ t.file = current
    THEN [t EXCEPT !.cls = Append(@, 1)]
    ELSE t

\* line 559: re.sub(r'(</body>)', r'</div>\1')
CloseMain(t) == IF t.k = "body_end" THEN <<Mark("div_close"), t>> ELSE <<t>>

RECURSIVE CloseMains(_)
CloseMains(c) ==
    IF c = <<>> THEN <<>> ELSE CloseMain(Head(c)) \o CloseMains(Tail(c))

AddSidebar(c, toc, current) ==
    LET bodies == {i \in 1..Len(c) : c[i].k = "body"}
    IN  IF bodies = {} THEN c
        ELSE LET placed == CloseMains(InsertAt(c, Least(bodies) + 1, SidebarOf(toc)))
             IN  IF current = NameIndex THEN placed
                 ELSE [i \in 1..Len(placed) |->
                          AddActiveClass(AddActiveWord(placed[i], current), current)]

\* ---- add_search_script, lines 731-887

\* The script goes in front of the first </head>; a page without one is
\* returned as it is.
AddSearchScript(c) ==
    LET heads == {i \in 1..Len(c) : c[i].k = "head_end"}
    IN  IF heads = {} THEN c ELSE InsertAt(c, Least(heads), <<Mark("script")>>)

\* ---- update_links_in_html, lines 604-633

\* lines 616-626, for one pair: href="([^"]*)old" matches an href that ends
\* with the old name, so a directory prefix is kept and an href that goes
\* on with #fragment is not matched.
UpdateLinkNoop(t, old, new) == t

UpdateLink(t, old, new) ==
    IF t.k = "a" /\ t.file = old /\ t.id = "" THEN [t EXCEPT !.file = new] ELSE t

RECURSIVE UpdateLinksOver(_, _, _)
UpdateLinksOver(c, map, olds) ==
    IF olds = {} THEN c
    ELSE LET old == CHOOSE o \in olds : TRUE
         IN  UpdateLinksOver([i \in 1..Len(c) |-> UpdateLink(c[i], old, map[old])],
                             map, olds \ {old})

\* line 606: an empty rename map changes nothing.
UpdateLinks(c, map) == UpdateLinksOver(c, map, DOMAIN map)

\* ---- rewrite_file, lines 66-87 and 154-173

\* repl, lines 68-75
ReplVref(t, map) ==
    IF t.k # "vref" THEN t
    ELSE IF t.id \in DOMAIN map
        THEN Link("", map[t.id].file, t.id, map[t.id].text)
        ELSE LocalLink(t.id, t.id)

\* repl_book, lines 79-85
ReplBook(t, map) ==
    IF t.k # "bookvref" THEN t
    ELSE IF t.id \in DOMAIN map
        THEN Link("", map[t.id].file, t.id, map[t.id].text)
        ELSE LocalLink(t.id, t.id)

\* line 170: pretty.startswith('sec:') or pretty.startswith('cha:')
IsPlaceholder(pretty) == pretty \in {"sec:intro", "cha:intro"}

\* repl_local_anchor, lines 156-171
ReplLocalAnchorAlwaysRelabels(t, map, current) ==
    IF ~IsLocalLink(t) THEN t
    ELSE IF t.id \notin DOMAIN map THEN t
    ELSE IF map[t.id].file = current THEN t
    ELSE [t EXCEPT !.file = map[t.id].file, !.text = map[t.id].text]

ReplLocalAnchorPromotesUnknown(t, map, current) ==
    IF ~IsLocalLink(t) THEN t
    ELSE IF t.id \notin DOMAIN map THEN [t EXCEPT !.file = current]
    ELSE IF map[t.id].file = current THEN t
    ELSE [t EXCEPT !.file = map[t.id].file,
                   !.text = IF StripTags(t.text) = t.id \/ IsPlaceholder(StripTags(t.text))
                            THEN map[t.id].text ELSE t.text]

ReplLocalAnchor(t, map, current) ==
    IF ~IsLocalLink(t) THEN t
    ELSE IF t.id \notin DOMAIN map THEN t
    ELSE IF map[t.id].file = current THEN t
    ELSE [t EXCEPT !.file = map[t.id].file,
                   !.text = IF StripTags(t.text) = t.id \/ IsPlaceholder(StripTags(t.text))
                            THEN map[t.id].text ELSE t.text]

\* Size markers: "sizemark" is @@SIZEHUGE{text} or @@SIZESMALL{text},
\* "sizeprefix" is \huge text or \small text as lines 236 and 238 match
\* it; pre holds the size, "huge" or "small".  "span" is
\* <span class=PRE>text</span> with PRE the characters that stand behind
\* `class=`.
SizeMarker(size, x) == Tok("sizemark", "", x, size, <<>>, <<>>)

SizePrefix(size, x) == Tok("sizeprefix", "", x, size, <<>>, <<>>)

Span(classattr, x) == Tok("span", "", x, classattr, <<>>, <<>>)

\* What re.sub makes of the templates of lines 196-197 and 236-238,
\* r"<span class=\"size-huge\">\\1</span>": the template holds a backslash
\* in front of each quote, which re leaves where it is, and two
\* backslashes in front of the 1, which re takes as one backslash and a
\* digit 1 and not as the reference to group 1.
ExpandSizeTemplate(size, group1) ==
    Span(IF size = "huge" THEN "\\\"size-huge\\\"" ELSE "\\\"size-small\\\"", "\\1")

\* lines 196-197 and 236-238
ReplSizeMarker(t) ==
    IF t.k \in {"sizemark", "sizeprefix"} THEN ExpandSizeTemplate(t.pre, t.text)
    ELSE t

\* The passes of rewrite_file over the tokens of the model, in the order of
\* the code: \vref, \bookvref, local anchors, size markers.
RewriteContent(c, map, current) ==
    [i \in 1..Len(c) |->
        ReplSizeMarker(
            ReplLocalAnchor(ReplBook(ReplVref(c[i], map), map), map, current))]

\* ---- main, lines 889-925

CurrentPage == pages[pos]

InitResolver ==
    /\ dir \in Directories
    /\ input_dir = dir
    /\ rename_map = <<>> /\ toc_content = <<>> /\ search_index = <<>>
    /\ id_map = <<>> /\ pages = <<>> /\ pos = 0
    /\ rpc = "rename" /\ run = 1
    /\ prev_dir = <<>> /\ prev_index = <<>>
    /\ IdleFlatten /\ IdleBody /\ IdleNormalizer /\ IdleBatch /\ IdleCli
    /\ IdleEmbed /\ IdleFont /\ IdleWeb /\ IdleLanding

\* line 900: rename_colon_files(outdir), in the order glob lists the files.
RenameColonFiles ==
    /\ rpc = "rename"
    /\ \E order \in Orders({n \in DOMAIN dir : HasColon(n)}) :
          /\ dir' = RenameAll(dir, order)
          /\ rename_map' = RenameMapOf(order)
    /\ rpc' = "toc"
    /\ UNCHANGED <<input_dir, toc_content, search_index, id_map, pages, pos,
                   run, prev_dir, prev_index>>
    /\ UNCHANGED notResolver

\* line 903: extract_toc_from_index(outdir)
ExtractTocFromIndex ==
    /\ rpc = "toc"
    /\ toc_content' = ExtractToc(dir)
    /\ rpc' = "index"
    /\ UNCHANGED <<dir, input_dir, rename_map, search_index, id_map, pages,
                   pos, run, prev_dir, prev_index>>
    /\ UNCHANGED notResolver

\* line 907: create_search_index(outdir)
CreateSearchIndex ==
    /\ rpc = "index"
    /\ search_index' = SearchIndexOf(dir)
    /\ rpc' = "idmap"
    /\ UNCHANGED <<dir, input_dir, rename_map, toc_content, id_map, pages,
                   pos, run, prev_dir, prev_index>>
    /\ UNCHANGED notResolver

\* lines 909-910: build_id_map(outdir), and the list of pages of the loop.
BuildIdMapStep ==
    /\ rpc = "idmap"
    /\ id_map' = BuildIdMap(dir)
    /\ pages' = SortedPages(dir)
    /\ pos' = 1
    /\ rpc' = IF SortedPages(dir) = <<>> THEN "done" ELSE "sidebar"
    /\ UNCHANGED <<dir, input_dir, rename_map, toc_content, search_index,
                   run, prev_dir, prev_index>>
    /\ UNCHANGED notResolver

\* lines 912-915: the sidebar, when there is a table of contents.
AddSidebarStep ==
    /\ rpc = "sidebar"
    /\ dir' = IF toc_content # <<>>
              THEN [dir EXCEPT ![CurrentPage] = AddSidebar(@, toc_content, CurrentPage)]
              ELSE dir
    /\ rpc' = "script"
    /\ UNCHANGED <<input_dir, rename_map, toc_content, search_index, id_map,
                   pages, pos, run, prev_dir, prev_index>>
    /\ UNCHANGED notResolver

\* lines 918-920: the search script.
AddSearchScriptStep ==
    /\ rpc = "script"
    /\ dir' = [dir EXCEPT ![CurrentPage] = AddSearchScript(@)]
    /\ rpc' = "links"
    /\ UNCHANGED <<input_dir, rename_map, toc_content, search_index, id_map,
                   pages, pos, run, prev_dir, prev_index>>
    /\ UNCHANGED notResolver

\* line 923: update_links_in_html(html_path, rename_map)
UpdateLinksStep ==
    /\ rpc = "links"
    /\ dir' = [dir EXCEPT ![CurrentPage] = UpdateLinks(@, rename_map)]
    /\ rpc' = "rewrite"
    /\ UNCHANGED <<input_dir, rename_map, toc_content, search_index, id_map,
                   pages, pos, run, prev_dir, prev_index>>
    /\ UNCHANGED notResolver

RewriteFileStepRebuildsIndex ==
    /\ rpc = "rewrite"
    /\ dir' = [dir EXCEPT ![CurrentPage] = RewriteContent(@, id_map, CurrentPage)]
    /\ id_map' = BuildIdMap(dir')
    /\ pos' = pos + 1
    /\ rpc' = IF pos = Len(pages) THEN "done" ELSE "sidebar"
    /\ UNCHANGED <<input_dir, rename_map, toc_content, search_index,
                   pages, run, prev_dir, prev_index>>
    /\ UNCHANGED notResolver

\* line 925: rewrite_file(html_path, id_map), and the loop goes on.
RewriteFileStep ==
    /\ rpc = "rewrite"
    /\ dir' = [dir EXCEPT ![CurrentPage] = RewriteContent(@, id_map, CurrentPage)]
    /\ pos' = pos + 1
    /\ rpc' = IF pos = Len(pages) THEN "done" ELSE "sidebar"
    /\ UNCHANGED <<input_dir, rename_map, toc_content, search_index, id_map,
                   pages, run, prev_dir, prev_index>>
    /\ UNCHANGED notResolver

\* The resolver is started again on the directory it has just processed.
RunAgain ==
    /\ rpc = "done" /\ run < MaxRuns
    /\ prev_dir' = dir
    /\ prev_index' = search_index
    /\ input_dir' = dir
    /\ run' = run + 1
    /\ rpc' = "rename"
    /\ rename_map' = <<>> /\ toc_content' = <<>> /\ id_map' = <<>>
    /\ pages' = <<>> /\ pos' = 0
    /\ UNCHANGED <<dir, search_index>>
    /\ UNCHANGED notResolver

NextResolver ==
    \/ RenameColonFiles
    \/ ExtractTocFromIndex
    \/ CreateSearchIndex
    \/ BuildIdMapStep
    \/ AddSidebarStep
    \/ AddSearchScriptStep
    \/ UpdateLinksStep
    \/ RewriteFileStep

NextRerun ==
    \/ RenameColonFiles
    \/ ExtractTocFromIndex
    \/ CreateSearchIndex
    \/ BuildIdMapStep
    \/ AddSidebarStep
    \/ AddSearchScriptStep
    \/ UpdateLinksStep
    \/ RewriteFileStep
    \/ RunAgain

\* One run of postprocess_html_refs.py on a directory.
SpecResolver == InitResolver /\ [][NextResolver]_vars

\* The resolver run up to MaxRuns times on the same directory.
SpecRerun == InitResolver /\ [][NextRerun]_vars

(***************************************************************************)
(*                 Claims about the HTML reference resolver                *)
(***************************************************************************)

ResolverDone == rpc = "done"

\* The identifiers reference macros of the model name.
RefIds == {"x"}

\* The page of the input directory that became page p of the output.
InputOf(p) == input_dir[CHOOSE n \in DOMAIN input_dir : Sanitize(n) = p]

IsMacroFor(t, id) == t.k \in {"vref", "bookvref"} /\ t.id = id

CountMacros(c, id) == Cardinality({i \in 1..Len(c) : IsMacroFor(c[i], id)})

NoMacroLeft(c, id) == \A i \in 1..Len(c) : ~IsMacroFor(c[i], id)

\* The position of a file name in sorted order.
Rank(n) == CHOOSE i \in 1..Len(NameOrder) : NameOrder[i] = n

\* The positions of the headings of page content c that carry id.
HeadingsOf(c, id) == {i \in 1..Len(c) : c[i].k = "h" /\ c[i].id = id}

\* The output pages whose input holds a heading with id.
HeadingPages(id) == {p \in DOMAIN dir : HeadingsOf(InputOf(p), id) # {}}

\* The last page, in sorted order, with a heading id, and the text of the
\* last such heading on it (the id when that text is empty).
LastHeadingPage(id) ==
    CHOOSE p \in HeadingPages(id) : \A q \in HeadingPages(id) : Rank(q) <= Rank(p)

LastHeadingLabel(id) ==
    LET c == InputOf(LastHeadingPage(id))
    IN  Or(StripTags(c[Greatest(HeadingsOf(c, id))].text), id)

\* Every macro naming id in the input of page q has become `link` in q.
AllResolvedTo(q, id, link) ==
    /\ NoMacroLeft(dir[q], id)
    /\ Count(dir[q], link) >= CountMacros(InputOf(q), id)

\* C6 as stated: for any heading with identifier id on page p with stripped
\* text Foo, every \vref{id} and \bookvref{id} of every page has become
\* <a href="p#id">Foo</a>.
C6_Original_AnyHeadingResolves ==
    ResolverDone =>
        \A p \in DOMAIN dir : \A i \in 1..Len(InputOf(p)) :
            LET h == InputOf(p)[i] IN
            (h.k = "h" /\ StripTags(h.text) # "") =>
                \A q \in DOMAIN dir :
                    AllResolvedTo(q, h.id, Link("", p, h.id, StripTags(h.text)))

\* C6 as amended: every \vref{id} and \bookvref{id} of every page has become
\* a link to the last page, in sorted file order, that holds a heading with
\* that id, with the stripped text of the last such heading of that page as
\* its text (the id itself when that text is empty).
C6_LastHeadingResolves ==
    ResolverDone =>
        \A id \in RefIds : HeadingPages(id) # {} =>
            \A q \in DOMAIN dir :
                AllResolvedTo(q, id,
                    Link("", LastHeadingPage(id), id, LastHeadingLabel(id)))

\* C6 witness: the run ended, a:b.html holds the only heading x, with text,
\* and a macro of c.html has become the link to a_b.html#x.
C6_Witness_CrossPageLink ==
    /\ ResolverDone
    /\ HeadingPages("x") = {Sanitize(NameAB)}
    /\ CountMacros(InputOf(NameC), "x") > 0
    /\ Count(dir[NameC], Link("", Sanitize(NameAB), "x", "Foo")) > 0

\* C7: a macro naming an identifier that is not in the index has become
\* <a href="#id">id</a>, and that link is still there after the promotion
\* of local anchors, when the run is over.
C7_UnknownIdFallsBack ==
    ResolverDone =>
        \A id \in RefIds : id \notin DOMAIN id_map =>
            \A q \in DOMAIN dir : AllResolvedTo(q, id, LocalLink(id, id))

\* C7 witness: the run ended, x is not in the index and a page that held a
\* macro for x holds the fallback link.
C7_Witness_FallbackLink ==
    /\ ResolverDone
    /\ "x" \notin DOMAIN id_map
    /\ \E q \in DOMAIN dir :
          /\ CountMacros(InputOf(q), "x") > 0
          /\ Count(dir[q], LocalLink("x", "x")) > 0

\* An href update_links_in_html rewrites: it ends with the old name of a
\* renamed file.
IsStaleHref(t) == t.k = "a" /\ t.file \in DOMAIN rename_map /\ t.id = ""

NoStaleHref(c) == \A i \in 1..Len(c) : ~IsStaleHref(c[i])

RewriteStarts == rpc = "rewrite"

C9_NoOldNameLeft ==
    ResolverDone =>
        \A q \in DOMAIN dir : \A i \in 1..Len(dir[q]) :
            dir[q][i].k = "a" => dir[q][i].file \notin DOMAIN rename_map

\* C10: a second run on the directory the first run produced leaves every
\* page and the search index as the first run left them.
C10_SecondRunChangesNothing ==
    (ResolverDone /\ run = 2) => (dir = prev_dir /\ search_index = prev_index)

(***************************************************************************)
(*     tools/tex_preprocess_for_pandoc.py: strip_problem_envs              *)
(***************************************************************************)

\* Bound: the most tokens of a text handed to strip_problem_envs.
MaxEnvText == 5

\* A text is a sequence of tokens.  "begin"/"end" are \begin{env} and
\* \end{env} as BEGIN_RE and END_RE match them, "mc" is a whole
\* \multicolumn{..}{..}{..} (or \cellcolor[..]{..}) command, "x" is other
\* text, "nl" is the "\n" a dropped block leaves.  n is the position the
\* token had in the input (0 for a token the function puts in), so that a
\* token of the output can be told from its equals.
EnvTok(k, env, n) == [k |-> k, env |-> env, n |-> n]

EnvShapes ==
    {EnvTok(k, e, 0) : k \in {"begin", "end"}, e \in {"tabular", "table", "center"}}
        \cup {EnvTok("mc", "", 0), EnvTok("x", "", 0)}

Numbered(s) == [i \in 1..Len(s) |-> EnvTok(s[i].k, s[i].env, i)]

EnvTexts == {Numbered(s) : s \in SeqsUpTo(EnvShapes, MaxEnvText)}

\* line 12
ENV_NAMES == {"longtable", "tabular*", "tabularx", "adjustbox", "tikzpicture"}

KindAt(text, from, k) == {p \in from..Len(text) : text[p].k = k}

HasBeginOf(content, names) ==
    \E p \in 1..Len(content) : content[p].k = "begin" /\ content[p].env \in names

HasMarker(content) == \E p \in 1..Len(content) : content[p].k = "mc"

\* _remove_env_blocks, lines 37-53: the search for the end that matches the
\* begin, from token j on, counting the nested begins of the same name.
\* giveup: END_RE finds nothing (lines 43-46).  ne is the last end found.
RECURSIVE FindMatchingEnd(_, _, _, _, _)
FindMatchingEnd(text, env, j, depth, ne) ==
    IF j > Len(text) \/ depth = 0
    THEN [giveup |-> FALSE, j |-> j, depth |-> depth, ne |-> ne]
    ELSE LET begins == KindAt(text, j, "begin")
             ends == KindAt(text, j, "end")
         IN  IF ends = {}
             THEN [giveup |-> TRUE, j |-> j, depth |-> depth, ne |-> ne]
             ELSE IF begins # {} /\ Least(begins) < Least(ends)
             THEN FindMatchingEnd(text, env, Least(begins) + 1,
                      IF text[Least(begins)].env = env THEN depth + 1 ELSE depth,
                      Least(ends))
             ELSE FindMatchingEnd(text, env, Least(ends) + 1,
                      IF text[Least(ends)].env = env THEN depth - 1 ELSE depth,
                      Least(ends))

\* lines 56-67, for the three calls of strip_problem_envs (lines 79, 81-83,
\* 85-87): which blocks a pass drops.
DropBlock(pass, env, content) ==
    CASE pass = 1 ->
            \/ env \in ENV_NAMES
            \/ env = "center" /\ HasBeginOf(content, ENV_NAMES)
      [] pass = 2 ->
            /\ env = "center"
            /\ HasBeginOf(content, {"longtable", "tabularx"}) \/ HasMarker(content)
      [] OTHER -> env = "tabular" /\ HasMarker(content)

\* _remove_env_blocks, lines 26-76, from token i on: the text before the
\* next begin is copied, the block from that begin to its matching end is
\* dropped (a "\n" stands for it) or copied whole, and the scan goes on
\* behind the block; what stands inside a copied block is not looked at.
RECURSIVE RemoveEnvBlocks(_, _, _)
RemoveEnvBlocks(text, pass, i) ==
    IF i > Len(text) THEN <<>>
    ELSE IF KindAt(text, i, "begin") = {} THEN SubSeq(text, i, Len(text))
    ELSE LET mb == Least(KindAt(text, i, "begin"))
             env == text[mb].env
             r == FindMatchingEnd(text, env, mb + 1, 1, 0)
             content == IF r.depth = 0 THEN SubSeq(text, mb + 1, r.ne - 1) ELSE <<>>
         IN  SubSeq(text, i, mb - 1) \o
             (IF r.giveup THEN SubSeq(text, mb, Len(text))
              ELSE (IF DropBlock(pass, env, content)
                    THEN <<EnvTok("nl", "", 0)>>
                    ELSE SubSeq(text, mb, r.j - 1))
                   \o RemoveEnvBlocks(text, pass, r.j))

\* lines 92-93: the \multicolumn and \cellcolor commands still there are
\* taken out.
StripStrayMarkers(text) == SelectSeq(text, LAMBDA t : t.k # "mc")

\* strip_problem_envs, lines 78-94
StripProblemEnvs(text) ==
    StripStrayMarkers(
        RemoveEnvBlocks(RemoveEnvBlocks(RemoveEnvBlocks(text, 1, 1), 2, 1), 3, 1))

InitEnvs ==
    /\ ntext \in EnvTexts
    /\ nfiles = {} /\ nout = <<>> /\ npc = "start"
    /\ IdleFlatten /\ IdleBody /\ IdleResolver /\ IdleBatch /\ IdleCli
    /\ IdleEmbed /\ IdleFont /\ IdleWeb /\ IdleLanding

\* main, line 428: body = strip_problem_envs(body)
StripProblemEnvsCall ==
    /\ npc = "start"
    /\ nout' = StripProblemEnvs(ntext)
    /\ npc' = "done"
    /\ UNCHANGED <<ntext, nfiles>>
    /\ UNCHANGED notNormalizer

NextEnvs == StripProblemEnvsCall

SpecEnvs == InitEnvs /\ [][NextEnvs]_vars

\* ---- C11

\* A text whose begins and ends pair up, each end closing the last open
\* begin of the same name: `open` is the stack of the open names.
RECURSIVE WellNestedFrom(_, _, _)
WellNestedFrom(text, i, open) ==
    IF i > Len(text) THEN open = <<>>
    ELSE IF text[i].k = "begin"
        THEN WellNestedFrom(text, i + 1, Append(open, text[i].env))
    ELSE IF text[i].k = "end"
        THEN /\ open # <<>>
             /\ open[Len(open)] = text[i].env
             /\ WellNestedFrom(text, i + 1, SubSeq(open, 1, Len(open) - 1))
    ELSE WellNestedFrom(text, i + 1, open)

WellNested(text) == WellNestedFrom(text, 1, <<>>)

\* Tokens b..e of text are one tabular environment.
IsTabularAt(text, b, e) ==
    /\ b < e
    /\ text[b] = EnvTok("begin", "tabular", b)
    /\ text[e] = EnvTok("end", "tabular", e)
    /\ WellNested(SubSeq(text, b + 1, e - 1))

InOutput(n) == \E p \in 1..Len(nout) : nout[p].n = n

\* Tokens b..e of the input stand in the output, next to each other.
IntactInOutput(b, e) ==
    \E p \in 0..(Len(nout) - (e - b + 1)) :
        \A d \in 0..(e - b) : nout[p + d + 1] = ntext[b + d]

\* C11: in a well-formed text, a tabular environment whose body holds
\* \multicolumn or \cellcolor is absent from what strip_problem_envs
\* returns, at top level or inside another environment; a tabular without
\* them that neither holds nor stands in another environment is there with
\* its begin, body and end.
C11_MarkedTablesRemoved ==
    (npc = "done" /\ WellNested(ntext)) =>
        \A b \in 1..Len(ntext) : \A e \in 1..Len(ntext) :
            IsTabularAt(ntext, b, e) =>
                LET body == SubSeq(ntext, b + 1, e - 1) IN
                /\ HasMarker(body) => ~InOutput(b) /\ ~InOutput(e)
                /\ ( /\ ~HasMarker(body)
                     /\ KindAt(body, 1, "begin") = {}
                     /\ WellNested(SubSeq(ntext, 1, b - 1)) )
                   => IntactInOutput(b, e)

(***************************************************************************)
(*     tools/tex_preprocess_for_pandoc.py: strip_missing_images            *)
(***************************************************************************)

\* Bound: the most tokens of a text handed to strip_missing_images.
MaxImgText == 2

\* A path is the sequence of its stem and its extensions, so that
\* str(p) + ext is Append(p, ext).
ImgStem == "images/foo"

\* line 225
ProbeExts == <<".svg", ".png", ".jpg", ".jpeg", ".pdf">>

\* The files that may stand under the working directory.
ImgFiles ==
    {<<ImgStem>>} \cup {<<ImgStem, ProbeExts[i]>> : i \in 1..Len(ProbeExts)}

\* INCG_RE, line 197: \includegraphics[opts]{path}; opts tells whether the
\* optional argument is there.  "x" is other text.  n is the position the
\* token had in the input.
Incg(opts, path, n) == [k |-> "incg", opts |-> opts, path |-> path, n |-> n]

ImgShapes ==
    {Incg(o, p, 0) : o \in BOOLEAN, p \in {<<ImgStem>>, <<ImgStem, ".png">>}}
        \cup {Incg(FALSE, <<>>, 0)}

IsDirectiveTok(t) == t.k = "incg" /\ t.path # <<>>

ImgNumbered(s) ==
    [i \in 1..Len(s) |->
        IF s[i].path = <<>> THEN [k |-> "x", opts |-> FALSE, path |-> <<>>, n |-> i]
        ELSE Incg(s[i].opts, s[i].path, i)]

ImgTexts == {ImgNumbered(s) : s \in SeqsUpTo(ImgShapes, MaxImgText)}

\* lines 226-229: the first extension of `exts`, in its order, for which
\* path + ext exists; 0 when there is none.
FirstExisting(path, files, exts) ==
    LET hits == {i \in 1..Len(exts) : Append(path, exts[i]) \in files}
    IN  IF hits = {} THEN 0 ELSE Least(hits)

\* repl, lines 217-231: the directive is kept as it is when its path
\* exists, becomes \includegraphics{path + ext} for the first extension
\* that exists, and is dropped otherwise.
ReplImage(t, files) ==
    IF ~IsDirectiveTok(t) THEN <<t>>
    ELSE IF t.path \in files THEN <<t>>
    ELSE LET e == FirstExisting(t.path, files, ProbeExts)
         IN  IF e = 0 THEN <<>>
             ELSE <<Incg(FALSE, Append(t.path, ProbeExts[e]), t.n)>>

\* strip_missing_images, lines 215-232: INCG_RE.sub(repl, text)
RECURSIVE StripMissingImages(_, _)
StripMissingImages(text, files) ==
    IF text = <<>> THEN <<>>
    ELSE ReplImage(Head(text), files) \o StripMissingImages(Tail(text), files)

InitImages ==
    /\ ntext \in ImgTexts
    /\ nfiles \in SUBSET ImgFiles
    /\ nout = <<>> /\ npc = "start"
    /\ IdleFlatten /\ IdleBody /\ IdleResolver /\ IdleBatch /\ IdleCli
    /\ IdleEmbed /\ IdleFont /\ IdleWeb /\ IdleLanding

\* main, line 436: body = strip_missing_images(body)
StripMissingImagesCall ==
    /\ npc = "start"
    /\ nout' = StripMissingImages(ntext, nfiles)
    /\ npc' = "done"
    /\ UNCHANGED <<ntext, nfiles>>
    /\ UNCHANGED notNormalizer

NextImages == StripMissingImagesCall

SpecImages == InitImages /\ [][NextImages]_vars

\* ---- C12

\* The order of the extensions the claim states.
StatedExts == <<".png", ".jpg", ".jpeg", ".svg">>

\* C12: a directive whose path has no extension (and names no file as it
\* stands) becomes the directive for path.png, else path.jpg, else
\* path.jpeg, else path.svg, the first that exists, and is dropped when
\* none of the four exists.
C12_ProbeOrderPngFirst ==
    (npc = "done" /\ <<ImgStem>> \notin nfiles) =>
        \A i \in 1..Len(ntext) :
            (IsDirectiveTok(ntext[i]) /\ Len(ntext[i].path) = 1) =>
                LET e == FirstExisting(ntext[i].path, nfiles, StatedExts) IN
                IF e = 0
                THEN \A p \in 1..Len(nout) : nout[p].n # i
                ELSE \E p \in 1..Len(nout) :
                        /\ nout[p].n = i
                        /\ nout[p].path = Append(ntext[i].path, StatedExts[e])

(***************************************************************************)
(*     tools/tex_preprocess_for_pandoc.py: demote_modes_chapter            *)
(***************************************************************************)

\* Bound: the most lines of a text handed to demote_modes_chapter.
MaxHeadings == 4

\* A text is a sequence of lines.  A heading line is \cmd{title} at the
\* start of its line; "Modes" is the title `C64, C65 and MEGA65 Modes`, "A"
\* any other title; a line of cmd "x" is no heading.  n is the position the
\* line had in the input.
HeadingCmds == <<"chapter", "section", "subsection", "subsubsection">>

HLine(cmd, title, n) == [cmd |-> cmd, title |-> title, n |-> n]

HeadingShapes ==
    {HLine(HeadingCmds[i], t, 0) : i \in 1..Len(HeadingCmds), t \in {"Modes", "A"}}
        \cup {HLine("x", "", 0)}

HNumbered(s) == [i \in 1..Len(s) |-> HLine(s[i].cmd, s[i].title, i)]

HeadingTexts == {HNumbered(s) : s \in SeqsUpTo(HeadingShapes, MaxHeadings)}

IsModesChapter(l) == l.cmd = "chapter" /\ l.title = "Modes"

\* line 400: the first line that is the Modes chapter; 0 for no match.
ModesStart(text) ==
    LET hits == {i \in 1..Len(text) : IsModesChapter(text[i])}
    IN  IF hits = {} THEN 0 ELSE Least(hits)

\* lines 404-405: the next \chapter{ line behind the start, or the end of
\* the text; the block is lines start..end-1.
ModesEnd(text, start) ==
    LET hits == {i \in (start + 1)..Len(text) : text[i].cmd = "chapter"}
    IN  IF hits = {} THEN Len(text) + 1 ELSE Least(hits)

\* line 408: the chapter line of the block becomes \section{...Modes}.
ChapterToSection(l) ==
    IF IsModesChapter(l) THEN HLine("section", l.title, l.n) ELSE l

\* line 410: every \section{ of the block whose title is not the Modes
\* title becomes \subsection{.
SectionToSubsection(l) ==
    IF l.cmd = "section" /\ l.title # "Modes"
    THEN HLine("subsection", l.title, l.n) ELSE l

\* line 411: every \subsection{ of the block, as the block stands after
\* line 410, becomes \subsubsection{.
SubsectionToSubsubsection(l) ==
    IF l.cmd = "subsection" THEN HLine("subsubsection", l.title, l.n) ELSE l

\* demote_modes_chapter, lines 398-412
DemoteModesChapter(text) ==
    LET start == ModesStart(text) IN
    IF start = 0 THEN text
    ELSE LET end == ModesEnd(text, start)
         IN  [i \in 1..Len(text) |->
                 IF i >= start /\ i < end
                 THEN SubsectionToSubsubsection(
                          SectionToSubsection(ChapterToSection(text[i])))
                 ELSE text[i]]

InitDemote ==
    /\ ntext \in HeadingTexts
    /\ nfiles = {} /\ nout = <<>> /\ npc = "start"
    /\ IdleFlatten /\ IdleBody /\ IdleResolver /\ IdleBatch /\ IdleCli
    /\ IdleEmbed /\ IdleFont /\ IdleWeb /\ IdleLanding

\* main, line 442: body = demote_modes_chapter(body)
DemoteModesChapterCall ==
    /\ npc = "start"
    /\ nout' = DemoteModesChapter(ntext)
    /\ npc' = "done"
    /\ UNCHANGED <<ntext, nfiles>>
    /\ UNCHANGED notNormalizer

NextDemote == DemoteModesChapterCall

SpecDemote == InitDemote /\ [][NextDemote]_vars

\* ---- C13

\* The heading command one level below cmd.
OneLevelDown(cmd) ==
    CASE cmd = "chapter" -> "section"
      [] cmd = "section" -> "subsection"
      [] cmd = "subsection" -> "subsubsection"
      [] OTHER -> cmd

\* C13: the Modes chapter becomes a section with its title; every section
\* and subsection between it and the next chapter (of another title than
\* the chapter's) moves down exactly one level, section to subsection and
\* subsection to subsubsection; every line outside that span is as it was.
C13_SpanDemotedOneLevel ==
    npc = "done" =>
        /\ Len(nout) = Len(ntext)
        /\ LET start == ModesStart(ntext)
               end == ModesEnd(ntext, start)
           IN  \A i \in 1..Len(ntext) :
                 IF start = 0 \/ i < start \/ i >= end
                     THEN nout[i] = ntext[i]
                 ELSE IF i = start
                     THEN nout[i] = HLine("section", "Modes", i)
                 ELSE (ntext[i].cmd \in {"section", "subsection"} /\ ntext[i].title = "A")
                         => nout[i] = HLine(OneLevelDown(ntext[i].cmd), "A", i)

(***************************************************************************)
(*   tools/tex_preprocess_for_pandoc.py: escape_dollars_in_screen_envs     *)
(***************************************************************************)

\* Bound: the most tokens of a text handed to escape_dollars_in_screen_envs.
MaxCodeText == 4

\* A text is a sequence of tokens: "B" is \begin{basiccode} (or screencode,
\* screenoutputlined), "E" is the \end{...} of the same name, "E1" is the
\* seven characters \end{\1}, "$" is a dollar no backslash stands before,
\* "\\$" is a dollar behind a backslash, "x" is other text.  n is the
\* position the token had in the input.
CodeTok(k, n) == [k |-> k, n |-> n]

CodeKinds == {"B", "E", "E1", "$", "\\$", "x"}

CodeTexts ==
    {[i \in 1..Len(s) |-> CodeTok(s[i], i)] : s \in SeqsUpTo(CodeKinds, MaxCodeText)}

\* line 318: re.sub(r"(?<!\\)\$", r"\\$", body)
EscapeDollar(t) == IF t.k = "$" THEN CodeTok("\\$", t.n) ELSE t

EscapeBody(body) == [i \in 1..Len(body) |-> EscapeDollar(body[i])]

\* line 311: env_re is the raw string ...\\end\{\\1\}, in which \\1 is a
\* backslash followed by the digit 1 and not a reference to group 1: a
\* match runs from a \begin{name} to the first \end{\1} behind it.
\* lines 314-321, from token i on: the text before the match is copied,
\* the match is written as \begin{name}, the body with its dollars
\* escaped, \end{name}; the text behind the last match is copied.
RECURSIVE EscapeDollarsFrom(_, _)
EscapeDollarsFrom(text, i) ==
    LET begins == {b \in i..Len(text) : text[b].k = "B"}
        ends(b) == {e \in (b + 1)..Len(text) : text[e].k = "E1"}
    IN  IF begins = {} \/ ends(Least(begins)) = {}
        THEN SubSeq(text, i, Len(text))
        ELSE LET b == Least(begins)
                 e == Least(ends(b))
             IN  SubSeq(text, i, b - 1)
                 \o <<text[b]>>
                 \o EscapeBody(SubSeq(text, b + 1, e - 1))
                 \o <<CodeTok("E", text[e].n)>>
                 \o EscapeDollarsFrom(text, e + 1)

\* escape_dollars_in_screen_envs, lines 309-322
EscapeDollarsInScreenEnvs(text) == EscapeDollarsFrom(text, 1)

InitDollars ==
    /\ ntext \in CodeTexts
    /\ nfiles = {} /\ nout = <<>> /\ npc = "start"
    /\ IdleFlatten /\ IdleBody /\ IdleResolver /\ IdleBatch /\ IdleCli
    /\ IdleEmbed /\ IdleFont /\ IdleWeb /\ IdleLanding

\* main, line 434: body = escape_dollars_in_screen_envs(body)
EscapeDollarsCall ==
    /\ npc = "start"
    /\ nout' = EscapeDollarsInScreenEnvs(ntext)
    /\ npc' = "done"
    /\ UNCHANGED <<ntext, nfiles>>
    /\ UNCHANGED notNormalizer

NextDollars == EscapeDollarsCall

SpecDollars == InitDollars /\ [][NextDollars]_vars

\* ---- C14

\* Token p of text stands inside a screen environment: between a
\* \begin{name} and the first \end{name} behind it.
InScreenEnv(text, p) ==
    \E b \in 1..(p - 1) : \E e \in (p + 1)..Len(text) :
        /\ text[b].k = "B" /\ text[e].k = "E"
        /\ \A q \in (b + 1)..(e - 1) : text[q].k \notin {"B", "E"}

\* C14: in a text that holds no \end{\1}, every dollar inside a screen
\* environment stands behind a backslash in the result, a dollar that was
\* escaped is not escaped again, and the text outside the environments is
\* as it was.
C14_DollarsEscapedInScreenEnvs ==
    (npc = "done" /\ \A p \in 1..Len(ntext) : ntext[p].k # "E1") =>
        /\ Len(nout) = Len(ntext)
        /\ \A p \in 1..Len(ntext) :
              IF InScreenEnv(ntext, p)
              THEN nout[p] = EscapeDollar(ntext[p])
              ELSE nout[p] = ntext[p]

(***************************************************************************)
(*  The item loops: postprocess_html_refs.py main, repair_fonts.py main,   *)
(*  make_webfonts.py main, ff_make_webfonts.py main                        *)
(***************************************************************************)

\* Bound: the most items of one loop.
MaxBatch == 3

FontTools == {"repair_fonts", "make_webfonts", "ff_make_webfonts"}

BatchTools == {"postprocess_html_refs"} \cup FontTools

\* An item is "ok" (it is processed without an error), "bad" (processing it
\* raises an exception: a page that is not UTF-8, a font fontTools or
\* FontForge cannot open) or "absent" (a font of the list that is not on
\* disk).  The pages come from glob(), so none of them is absent.
ItemKinds(tool) ==
    IF tool \in FontTools THEN {"ok", "bad", "absent"} ELSE {"ok", "bad"}

InitBatch ==
    /\ batch_tool \in BatchTools
    /\ batch_items \in SeqsUpTo(ItemKinds(batch_tool), MaxBatch)
    /\ batch_pos = 1
    /\ batch_processed = {} /\ batch_warned = {}
    /\ batch_state = "running"
    /\ IdleFlatten /\ IdleBody /\ IdleResolver /\ IdleNormalizer /\ IdleCli
    /\ IdleEmbed /\ IdleFont /\ IdleWeb /\ IdleLanding

AtItem(tools, kind) ==
    /\ batch_state = "running"
    /\ batch_tool \in tools
    /\ batch_pos <= Len(batch_items)
    /\ batch_items[batch_pos] = kind

\* repair_fonts.py lines 93-94, make_webfonts.py lines 35-36,
\* ff_make_webfonts.py lines 35-36: if not src.exists(): continue
FontAbsent ==
    /\ AtItem(FontTools, "absent")
    /\ batch_pos' = batch_pos + 1
    /\ UNCHANGED <<batch_tool, batch_items, batch_processed, batch_warned, batch_state>>
    /\ UNCHANGED notBatch

\* repair_fonts.py lines 96-98, make_webfonts.py lines 38-40,
\* ff_make_webfonts.py lines 37-39: the try block runs to its end.
FontConverted ==
    /\ AtItem(FontTools, "ok")
    /\ batch_processed' = batch_processed \cup {batch_pos}
    /\ batch_pos' = batch_pos + 1
    /\ UNCHANGED <<batch_tool, batch_items, batch_warned, batch_state>>
    /\ UNCHANGED notBatch

\* repair_fonts.py lines 99-100, make_webfonts.py lines 41-42,
\* ff_make_webfonts.py lines 40-41: except Exception prints a warning and
\* the loop goes on.
FontFailed ==
    /\ AtItem(FontTools, "bad")
    /\ batch_warned' = batch_warned \cup {batch_pos}
    /\ batch_pos' = batch_pos + 1
    /\ UNCHANGED <<batch_tool, batch_items, batch_processed, batch_state>>
    /\ UNCHANGED notBatch

\* postprocess_html_refs.py lines 910-925: the body of the loop runs to its
\* end for a page that can be read.
PageProcessed ==
    /\ AtItem({"postprocess_html_refs"}, "ok")
    /\ batch_processed' = batch_processed \cup {batch_pos}
    /\ batch_pos' = batch_pos + 1
    /\ UNCHANGED <<batch_tool, batch_items, batch_warned, batch_state>>
    /\ UNCHANGED notBatch

\* postprocess_html_refs.py lines 913 and 918: html_path.read_text() raises
\* for a page that cannot be decoded; the loop body stands in no try
\* block, so the exception leaves the loop and main().
PageRaises ==
    /\ AtItem({"postprocess_html_refs"}, "bad")
    /\ batch_state' = "aborted"
    /\ UNCHANGED <<batch_tool, batch_items, batch_pos, batch_processed, batch_warned>>
    /\ UNCHANGED notBatch

\* The loop has gone through its list.
BatchEnd ==
    /\ batch_state = "running"
    /\ batch_pos > Len(batch_items)
    /\ batch_state' = "finished"
    /\ UNCHANGED <<batch_tool, batch_items, batch_pos, batch_processed, batch_warned>>
    /\ UNCHANGED notBatch

NextBatch ==
    \/ FontAbsent
    \/ FontConverted
    \/ FontFailed
    \/ PageProcessed
    \/ PageRaises
    \/ BatchEnd

SpecBatch == InitBatch /\ [][NextBatch]_vars

\* ---- C15

BatchStopped == batch_state \in {"finished", "aborted"}

\* C15: when a batch tool has stopped, every item that stands behind an
\* item whose processing raised an error, and that can be processed, has
\* been processed.
C15_LaterItemsStillProcessed ==
    BatchStopped =>
        \A i \in 1..Len(batch_items) : \A j \in (i + 1)..Len(batch_items) :
            (batch_items[i] = "bad" /\ batch_items[j] = "ok")
                => j \in batch_processed

(***************************************************************************)
(*          The command lines of the tools: main() of each script          *)
(***************************************************************************)

\* Bound: the most positional arguments a tool is started with.
MaxArgs == 3

PathTools == {"flatten_tex", "tex_preprocess_for_pandoc", "postprocess_html_refs"}

CliTools == PathTools \cup FontTools

\* The number of positional arguments main() asks for: len(sys.argv) != 3
\* in flatten_tex.py line 33 and tex_preprocess_for_pandoc.py line 415,
\* len(sys.argv) != 2 in postprocess_html_refs.py line 890.  The font
\* tools never look at sys.argv.
ExpectedArgs(tool) ==
    CASE tool \in {"flatten_tex", "tex_preprocess_for_pandoc"} -> 2
      [] tool = "postprocess_html_refs" -> 1
      [] OTHER -> 0

InitCli ==
    /\ cli_tool \in CliTools
    /\ cli_argc \in 0..MaxArgs
    /\ cli_input \in {"present", "missing", "unreadable"}
    /\ cli_pc = "start"
    /\ cli_exit = -1 /\ cli_usage = FALSE /\ cli_error = FALSE
    /\ cli_warned = FALSE /\ cli_reads = FALSE /\ cli_writes = FALSE
    /\ IdleFlatten /\ IdleBody /\ IdleResolver /\ IdleNormalizer /\ IdleBatch
    /\ IdleEmbed /\ IdleFont /\ IdleWeb /\ IdleLanding

\* flatten_tex.py lines 33-35, tex_preprocess_for_pandoc.py lines 415-417,
\* postprocess_html_refs.py lines 890-892: print("Usage: ..."); sys.exit(2)
PrintUsage ==
    /\ cli_pc = "start"
    /\ cli_tool \in PathTools
    /\ cli_argc # ExpectedArgs(cli_tool)
    /\ cli_usage' = TRUE
    /\ cli_exit' = 2
    /\ cli_pc' = "exited"
    /\ UNCHANGED <<cli_tool, cli_argc, cli_input, cli_error, cli_warned, cli_reads, cli_writes>>
    /\ UNCHANGED notCli

\* flatten_tex.py line 39 with lines 14-18 of flatten: the input is read;
\* when read_text raises, a warning goes to stderr, flatten returns and
\* main goes on with an empty out_lines.
FlattenInput ==
    /\ cli_pc = "start"
    /\ cli_tool = "flatten_tex"
    /\ cli_argc = ExpectedArgs(cli_tool)
    /\ IF cli_input = "present"
       THEN cli_reads' = TRUE /\ UNCHANGED cli_warned
       ELSE cli_warned' = TRUE /\ UNCHANGED cli_reads
    /\ cli_pc' = "write"
    /\ UNCHANGED <<cli_tool, cli_argc, cli_input, cli_exit, cli_usage, cli_error, cli_writes>>
    /\ UNCHANGED notCli

\* tex_preprocess_for_pandoc.py line 420: src.read_text() stands in no try
\* block, so a path that cannot be read ends the process with a traceback
\* and status 1.
NormalizeInput ==
    /\ cli_pc = "start"
    /\ cli_tool = "tex_preprocess_for_pandoc"
    /\ cli_argc = ExpectedArgs(cli_tool)
    /\ IF cli_input = "present"
       THEN /\ cli_reads' = TRUE /\ cli_pc' = "write"
            /\ UNCHANGED <<cli_error, cli_exit>>
       ELSE /\ cli_error' = TRUE /\ cli_exit' = 1 /\ cli_pc' = "exited"
            /\ UNCHANGED cli_reads
    /\ UNCHANGED <<cli_tool, cli_argc, cli_input, cli_usage, cli_warned, cli_writes>>
    /\ UNCHANGED notCli

\* flatten_tex.py line 47 and tex_preprocess_for_pandoc.py line 447:
\* dst.write_text(...), and main returns.
WriteOutput ==
    /\ cli_pc = "write"
    /\ cli_writes' = TRUE
    /\ cli_exit' = 0
    /\ cli_pc' = "exited"
    /\ UNCHANGED <<cli_tool, cli_argc, cli_input, cli_usage, cli_error, cli_warned, cli_reads>>
    /\ UNCHANGED notCli

\* postprocess_html_refs.py lines 894-896: print("ERROR: Not a directory");
\* sys.exit(1)
ResolverNotADirectory ==
    /\ cli_pc = "start"
    /\ cli_tool = "postprocess_html_refs"
    /\ cli_argc = ExpectedArgs(cli_tool)
    /\ cli_input # "present"
    /\ cli_error' = TRUE
    /\ cli_exit' = 1
    /\ cli_pc' = "exited"
    /\ UNCHANGED <<cli_tool, cli_argc, cli_input, cli_usage, cli_warned, cli_reads, cli_writes>>
    /\ UNCHANGED notCli

\* postprocess_html_refs.py lines 898-925: the run on a directory, which
\* reads the pages and writes the search index and the pages.
ResolverRun ==
    /\ cli_pc = "start"
    /\ cli_tool = "postprocess_html_refs"
    /\ cli_argc = ExpectedArgs(cli_tool)
    /\ cli_input = "present"
    /\ cli_reads' = TRUE
    /\ cli_writes' = TRUE
    /\ cli_exit' = 0
    /\ cli_pc' = "exited"
    /\ UNCHANGED <<cli_tool, cli_argc, cli_input, cli_usage, cli_error, cli_warned>>
    /\ UNCHANGED notCli

\* repair_fonts.py lines 81-100, make_webfonts.py lines 13-45,
\* ff_make_webfonts.py lines 25-41: main() does not look at sys.argv; it
\* makes the output directory, converts the fonts that exist (a font that
\* cannot be opened gives a warning) and ends with status 0.
FontToolRun ==
    /\ cli_pc = "start"
    /\ cli_tool \in FontTools
    /\ cli_writes' = TRUE
    /\ cli_reads' = (cli_input = "present")
    /\ cli_warned' = (cli_input = "unreadable")
    /\ cli_exit' = 0
    /\ cli_pc' = "exited"
    /\ UNCHANGED <<cli_tool, cli_argc, cli_input, cli_usage, cli_error>>
    /\ UNCHANGED notCli

NextCli ==
    \/ PrintUsage
    \/ FlattenInput
    \/ NormalizeInput
    \/ WriteOutput
    \/ ResolverNotADirectory
    \/ ResolverRun
    \/ FontToolRun

SpecCli == InitCli /\ [][NextCli]_vars

\* ---- C16

CliExited == cli_pc = "exited"

\* C16: a tool started with another number of positional arguments than it
\* takes prints a usage message and exits with a non-zero status, and has
\* read and written no file.
C16_WrongArgCountRejected ==
    (CliExited /\ cli_argc # ExpectedArgs(cli_tool)) =>
        /\ cli_usage
        /\ cli_exit # 0
        /\ ~cli_reads /\ ~cli_writes

\* ---- C17

\* C17: the flattener or the normalizer, started on an input path that
\* does not exist, ends with an error and a non-zero status and writes no
\* output file.
C17_MissingInputIsFatal ==
    ( /\ CliExited
      /\ cli_tool \in {"flatten_tex", "tex_preprocess_for_pandoc"}
      /\ cli_argc = ExpectedArgs(cli_tool)
      /\ cli_input = "missing" )
        => /\ cli_exit # 0
           /\ cli_error
           /\ ~cli_writes

(***************************************************************************)
(*  tools/postprocess_html_refs.py: repl_embed and convert_pdf_to_png      *)
(***************************************************************************)

\* EMBED_RE, line 137, is compiled with re.IGNORECASE: the src of an embed
\* it matches ends with .pdf in any letter case.  A path is <<stem, ext>>.
EmbedStem == "images/f"

EmbedSrcs == {<<EmbedStem, ".pdf">>, <<EmbedStem, ".PDF">>}

\* The png next to the PDF.
SiblingPng == <<EmbedStem, ".png">>

\* line 110: re.sub(r"\.pdf$", ".png", pdf_rel), which is case-sensitive:
\* a path that ends with .PDF comes back as it is.
PngRel(pdf_rel) ==
    IF pdf_rel[2] = ".pdf" THEN <<pdf_rel[1], ".png">> ELSE pdf_rel

\* What an external tool does when it is run: it raises (it is not
\* installed, or check=True meets a non-zero status) or returns, and it
\* writes its output file or does not.
ToolBehaviours == [raises : BOOLEAN, writes : BOOLEAN]

InitEmbed ==
    /\ emb_src \in EmbedSrcs
    /\ emb_files \in SUBSET {emb_src, SiblingPng}
    /\ emb_files0 = emb_files
    /\ emb_ink \in ToolBehaviours
    /\ emb_conv \in ToolBehaviours
    /\ emb_pc = "start"
    /\ emb_calls = <<>> /\ emb_new_src = <<>>
    /\ emb_out = [tag |-> "", src |-> <<>>]
    /\ IdleFlatten /\ IdleBody /\ IdleResolver /\ IdleNormalizer
    /\ IdleBatch /\ IdleCli
    /\ IdleFont /\ IdleWeb /\ IdleLanding

\* lines 112-113: if png_path.exists(): return png_rel
CachedPng ==
    /\ emb_pc = "start"
    /\ PngRel(emb_src) \in emb_files
    /\ emb_new_src' = PngRel(emb_src)
    /\ emb_pc' = "emit"
    /\ UNCHANGED <<emb_src, emb_files, emb_files0, emb_ink, emb_conv, emb_calls, emb_out>>
    /\ UNCHANGED notEmbed

\* lines 114-115: no such file; the directory is made and the tools follow.
NoCachedPng ==
    /\ emb_pc = "start"
    /\ PngRel(emb_src) \notin emb_files
    /\ emb_pc' = "inkscape"
    /\ UNCHANGED <<emb_src, emb_files, emb_files0, emb_ink, emb_conv, emb_calls, emb_new_src, emb_out>>
    /\ UNCHANGED notEmbed

\* lines 116-124: inkscape is run with --export-filename=png_path; png_rel
\* is returned when it did not raise and png_path exists.
RunInkscape ==
    /\ emb_pc = "inkscape"
    /\ emb_calls' = Append(emb_calls, "inkscape")
    /\ emb_files' = IF emb_ink.writes THEN emb_files \cup {PngRel(emb_src)} ELSE emb_files
    /\ IF ~emb_ink.raises /\ PngRel(emb_src) \in emb_files'
       THEN emb_new_src' = PngRel(emb_src) /\ emb_pc' = "emit"
       ELSE UNCHANGED emb_new_src /\ emb_pc' = "convert"
    /\ UNCHANGED <<emb_src, emb_files0, emb_ink, emb_conv, emb_out>>
    /\ UNCHANGED notEmbed

\* lines 125-135: convert is run with png_path as its output; png_rel is
\* returned when it did not raise and png_path exists, pdf_rel otherwise.
RunConvert ==
    /\ emb_pc = "convert"
    /\ emb_calls' = Append(emb_calls, "convert")
    /\ emb_files' = IF emb_conv.writes THEN emb_files \cup {PngRel(emb_src)} ELSE emb_files
    /\ emb_new_src' =
          IF ~emb_conv.raises /\ PngRel(emb_src) \in emb_files'
          THEN PngRel(emb_src) ELSE emb_src
    /\ emb_pc' = "emit"
    /\ UNCHANGED <<emb_src, emb_files0, emb_ink, emb_conv, emb_out>>
    /\ UNCHANGED notEmbed

\* repl_embed, lines 147-150: an <img> when new_src ends with '.png', the
\* matched <embed> as it is otherwise.
ReplEmbed ==
    /\ emb_pc = "emit"
    /\ emb_out' =
          IF emb_new_src[2] = ".png"
          THEN [tag |-> "img", src |-> emb_new_src]
          ELSE [tag |-> "embed", src |-> emb_src]
    /\ emb_pc' = "done"
    /\ UNCHANGED <<emb_src, emb_files, emb_files0, emb_ink, emb_conv, emb_calls, emb_new_src>>
    /\ UNCHANGED notEmbed

NextEmbed ==
    \/ CachedPng
    \/ NoCachedPng
    \/ RunInkscape
    \/ RunConvert
    \/ ReplEmbed

SpecEmbed == InitEmbed /\ [][NextEmbed]_vars

\* ---- C18

\* C18: for a PDF embed, when the sibling png was there no tool is run and
\* the <img> of that png is written; otherwise inkscape is run once, first,
\* and convert is run once exactly when inkscape raised or left no png;
\* and when no png is there in the end, the <embed> is written back as it
\* was.
C18_CacheThenInkscapeThenConvert ==
    emb_pc = "done" =>
        /\ SiblingPng \in emb_files0 =>
              /\ emb_calls = <<>>
              /\ emb_out = [tag |-> "img", src |-> SiblingPng]
        /\ SiblingPng \notin emb_files0 =>
              /\ Len(emb_calls) \in {1, 2}
              /\ emb_calls[1] = "inkscape"
              /\ Len(emb_calls) = 2 => emb_calls[2] = "convert"
              /\ Len(emb_calls) = 2 <=>
                    (emb_ink.raises \/ ~emb_ink.writes)
        /\ SiblingPng \notin emb_files =>
              emb_out = [tag |-> "embed", src |-> emb_src]

(***************************************************************************)
(*  tools/postprocess_html_refs.py: rewrite_file on the local anchors of   *)
(*  one page                                                               *)
(***************************************************************************)

\* Bound: the most links of the page rewrite_file is called on.
MaxAnchors == 2

AnchorIds == {"x", "y"}

\* The inner HTML of the links: the raw identifier x, the same between
\* blanks, a placeholder of each prefix, and a text of its own.
AnchorTexts == {"x", " x ", "sec:intro", "cha:intro", "see"}

\* <a href="#id">text</a> for each id and text, and a link to another file.
AnchorTokens ==
    {LocalLink(id, text) : id \in AnchorIds, text \in AnchorTexts}
        \cup {Link("", NameC, "x", "x")}

AnchorPageNames == {Sanitize(NameAB), NameC}

\* The indexes rewrite_file may be handed: each id is absent or maps to one
\* of the two pages, with the label "Foo".
AnchorIndexes ==
    UNION {[ids -> [file : AnchorPageNames, text : {"Foo"}]] : ids \in SUBSET AnchorIds}

\* main stands in front of line 925 for one page of a directory of two
\* pages; the links of the other page play no part.
InitAnchors ==
    /\ \E c \in SeqsUpTo(AnchorTokens, MaxAnchors) :
          dir = [n \in AnchorPageNames |-> IF n = NameC THEN <<>> ELSE c]
    /\ input_dir = dir
    /\ id_map \in AnchorIndexes
    /\ pages = SortedPages(dir)
    /\ pos = 1
    /\ rpc = "rewrite" /\ run = 1
    /\ rename_map = <<>> /\ toc_content = <<>> /\ search_index = <<>>
    /\ prev_dir = <<>> /\ prev_index = <<>>
    /\ IdleFlatten /\ IdleBody /\ IdleNormalizer /\ IdleBatch /\ IdleCli
    /\ IdleEmbed /\ IdleFont /\ IdleWeb /\ IdleLanding

\* The rest of the loop of main for the second page, which holds nothing.
NextAnchors ==
    \/ RewriteFileStep
    \/ AddSidebarStep
    \/ AddSearchScriptStep
    \/ UpdateLinksStep

SpecAnchors == InitAnchors /\ [][NextAnchors]_vars

\* ---- C19

\* rewrite_file has returned for the first page of the loop.
FirstPageRewritten == pos > 1

\* The link the claim states for link t of page p under index map.
PromotedLink(t, map, p) ==
    IF t.id \in DOMAIN map /\ map[t.id].file # p
    THEN Link("", map[t.id].file, t.id,
              IF StripTags(t.text) = t.id
                    \/ StripTags(t.text) \in {"sec:intro", "cha:intro"}
              THEN map[t.id].text ELSE t.text)
    ELSE t

\* C19: after rewrite_file, a link <a href="#id"> points to file#id exactly
\* when the index maps id to another page than the one it stands on; its
\* text is the indexed label when it was the raw identifier or began with
\* sec: or cha:, and is as it was otherwise; a link whose id is on the same
\* page or not in the index, and every other link, is as it was.
C19_LocalAnchorPromotion ==
    FirstPageRewritten =>
        LET p == pages[1] IN
        /\ Len(dir[p]) = Len(input_dir[p])
        /\ \A i \in 1..Len(input_dir[p]) :
              LET t == input_dir[p][i] IN
              dir[p][i] = IF IsLocalLink(t) THEN PromotedLink(t, id_map, p) ELSE t

\* C19 witness: rewrite_file has returned for a page that held a link to
\* #x with a text of its own and a link to #x with the raw identifier, x
\* being on the other page: the first keeps its text, the second has the
\* label.
C19_Witness_PromotedBothWays ==
    /\ FirstPageRewritten
    /\ "x" \in DOMAIN id_map /\ id_map["x"].file = NameC
    /\ input_dir[pages[1]] = <<LocalLink("x", "see"), LocalLink("x", " x ")>>
    /\ dir[pages[1]] = <<Link("", NameC, "x", "see"), Link("", NameC, "x", "Foo")>>

\* ---- C20

\* The loop of main at line 910 has been entered.
LoopEntered == pos >= 1

\* The files rename_colon_files finds in directory d.
ColonFilesOf(d) == {n \in DOMAIN d : HasColon(n)}

\* C20: from the moment the loop over the pages is entered, and through
\* every step of it, the rename map is the whole map of the colon names of
\* the input directory and the identifier index is the index of the whole
\* renamed input directory: both were built before the first page was
\* touched and no step on a page has changed them.
C20_MapsBuiltBeforeLoopAndKept ==
    LoopEntered =>
        \E order \in Orders(ColonFilesOf(input_dir)) :
            /\ rename_map = RenameMapOf(order)
            /\ id_map = BuildIdMap(RenameAll(input_dir, order))

\* C20 witness: rewrite_file starts on the second page, the first page has
\* been rewritten and is no longer what the index was built from, and both
\* maps hold an entry.
C20_Witness_SecondPageSameMaps ==
    /\ rpc = "rewrite" /\ pos = 2
    /\ DOMAIN rename_map = {NameAB}
    /\ "x" \in DOMAIN id_map
    /\ dir[pages[1]] # input_dir[NameAB]
    /\ BuildIdMap(dir) # id_map

(***************************************************************************)
(*     tools/tex_preprocess_for_pandoc.py: _remove_env_blocks              *)
(***************************************************************************)

\* Bound: the most tokens of a text handed to _remove_env_blocks.
MaxBlockText == 4

\* The begins and ends of an environment of ENV_NAMES and of one that is
\* not, and other text.
BlockShapes ==
    {EnvTok(k, e, 0) : k \in {"begin", "end"}, e \in {"longtable", "center"}}
        \cup {EnvTok("x", "", 0)}

BlockTexts == {Numbered(s) : s \in SeqsUpTo(BlockShapes, MaxBlockText)}

InitBlocks ==
    /\ ntext \in BlockTexts
    /\ nfiles = {} /\ nout = <<>> /\ npc = "start"
    /\ IdleFlatten /\ IdleBody /\ IdleResolver /\ IdleBatch /\ IdleCli
    /\ IdleEmbed /\ IdleFont /\ IdleWeb /\ IdleLanding

\* strip_problem_envs, line 79: _remove_env_blocks(text, ENV_NAMES)
RemoveEnvBlocksCall ==
    /\ npc = "start"
    /\ nout' = RemoveEnvBlocks(ntext, 1, 1)
    /\ npc' = "done"
    /\ UNCHANGED <<ntext, nfiles>>
    /\ UNCHANGED notNormalizer

NextBlocks == RemoveEnvBlocksCall

SpecBlocks == InitBlocks /\ [][NextBlocks]_vars

\* ---- C26

\* The number of tokens of kind k and environment env among tokens a..b.
CountOf(text, k, env, a, b) ==
    Cardinality({p \in a..b : text[p].k = k /\ text[p].env = env})

\* The ends that close the begin at b: an end of the same name in front of
\* which as many begins as ends of that name stand since b.
ClosingEnds(text, b) ==
    {e \in (b + 1)..Len(text) :
        /\ text[e].k = "end" /\ text[e].env = text[b].env
        /\ CountOf(text, "begin", text[b].env, b + 1, e - 1)
              = CountOf(text, "end", text[b].env, b + 1, e - 1)}

\* What the claim states for the text from token i on: the text in front of
\* the next begin is copied; without a matching end the rest is copied as
\* it is; else the block from the begin to its matching end is dropped or
\* kept whole and the scan goes on behind it.
RECURSIVE StatedBlocks(_, _)
StatedBlocks(text, i) ==
    IF i > Len(text) THEN <<>>
    ELSE IF KindAt(text, i, "begin") = {} THEN SubSeq(text, i, Len(text))
    ELSE LET b == Least(KindAt(text, i, "begin")) IN
         IF ClosingEnds(text, b) = {} THEN SubSeq(text, i, Len(text))
         ELSE LET e == Least(ClosingEnds(text, b)) IN
              SubSeq(text, i, b - 1)
                \o (IF DropBlock(1, text[b].env, SubSeq(text, b + 1, e - 1))
                    THEN <<EnvTok("nl", "", 0)>>
                    ELSE SubSeq(text, b, e))
                \o StatedBlocks(text, e + 1)

\* C26: _remove_env_blocks pairs each begin with the end of the same name
\* at the same depth, drops or keeps exactly the block between them, and
\* copies the rest of the text unchanged from a begin that has no matching
\* end.
C26_BlocksPairedByDepth ==
    npc = "done" => nout = StatedBlocks(ntext, 1)

(***************************************************************************)
(*     tools/tex_preprocess_for_pandoc.py: the calls of main               *)
(***************************************************************************)

\* The kinds of construct the rewrites of the normalizer work on; a text is
\* taken here as the set of the kinds it holds.
Constructs ==
    {"preamble", "decor", "cond", "comment", "arrow", "nested", "complex",
     "heading", "dollar", "image", "modes"}

\* One call of main: the function, the construct kinds it rewrites and the
\* numbers its rewrites have in the list of the specification.
Call(fn, rewrites, steps) == [fn |-> fn, rewrites |-> rewrites, steps |-> steps]

\* main, lines 421-442, call after call.  strip_problem_macros drops
\* decorative constructs (lines 98-126), resolves the conditionals (lines
\* 130-132) and then drops the index directives (lines 138-143);
\* wrap_key_macros, drop_remaining_tabular and split_at_modes_chapter
\* rewrite none of the listed constructs.
MainCalls ==
    << Call("extract_body", {"preamble"}, <<1>>),
       Call("strip_problem_macros", {"decor", "cond"}, <<2, 3, 2>>),
       Call("strip_tex_line_comments", {"comment"}, <<4>>),
       Call("normalize_arrows", {"arrow"}, <<5>>),
       Call("unwrap_nested_tabular", {"nested"}, <<6>>),
       Call("strip_problem_envs", {"complex"}, <<7>>),
       Call("normalize_headings", {"heading"}, <<10>>),
       Call("collapse_heading_arguments", {}, <<10>>),
       Call("escape_dollars_in_screen_envs", {"dollar"}, <<9>>),
       Call("strip_missing_images", {"image"}, <<8>>),
       Call("wrap_key_macros", {}, <<>>),
       Call("drop_remaining_tabular", {}, <<>>),
       Call("split_at_modes_chapter", {}, <<>>),
       Call("demote_modes_chapter", {"modes"}, <<11>>) >>

\* main has read the input (line 420); nout holds the body, the functions
\* called so far and the rewrites done so far.
InitMain ==
    /\ ntext \in SUBSET Constructs
    /\ nfiles = {}
    /\ nout = [body |-> ntext, called |-> <<>>, applied |-> <<>>]
    /\ npc = "start"
    /\ IdleFlatten /\ IdleBody /\ IdleResolver /\ IdleBatch /\ IdleCli
    /\ IdleEmbed /\ IdleFont /\ IdleWeb /\ IdleLanding

\* The next call of main: body = f(body).
MainCall ==
    /\ npc = "start"
    /\ LET c == MainCalls[Len(nout.called) + 1] IN
       /\ nout' = [body |-> nout.body \ c.rewrites,
                   called |-> Append(nout.called, c.fn),
                   applied |-> nout.applied \o c.steps]
       /\ npc' = IF Len(nout.called) + 1 = Len(MainCalls) THEN "done" ELSE "start"
    /\ UNCHANGED <<ntext, nfiles>>
    /\ UNCHANGED notNormalizer

NextMain == MainCall

SpecMain == InitMain /\ [][NextMain]_vars

\* ---- C24

\* C24: the rewrites are applied in the order of the list, 1 to 11: no
\* rewrite is applied after one with a higher number, and all eleven have
\* been applied when main is through.
C24_RewritesInListedOrder ==
    /\ \A i, j \in 1..Len(nout.applied) :
          i < j => nout.applied[i] <= nout.applied[j]
    /\ npc = "done" => {nout.applied[i] : i \in 1..Len(nout.applied)} = 1..11

(***************************************************************************)
(*  tools/tex_preprocess_for_pandoc.py: normalize_headings and             *)
(*  collapse_heading_arguments                                             *)
(***************************************************************************)

\* Bound: the most items of a text handed to normalize_headings.
MaxHeadLines == 3

\* A text is a sequence of items: a line of other text ("x"), an empty
\* line ("blank"), or a heading command that stands at the start of a line
\* and whose braced argument runs over `arglines` lines.  n is the position
\* the item had in the input, 0 for a line the functions put in.
HdItem(cmd, arglines, n) == [cmd |-> cmd, arglines |-> arglines, n |-> n]

\* The heading commands of lines 350-352.
NormalizedCmds == {"chapter", "section", "subsection"}

HdShapes ==
    {HdItem(c, a, 0) : c \in NormalizedCmds, a \in {1, 2}}
        \cup {HdItem("x", 0, 0), HdItem("blank", 0, 0)}

HdTexts ==
    {[i \in 1..Len(s) |-> HdItem(s[i].cmd, s[i].arglines, i)] :
        s \in SeqsUpTo(HdShapes, MaxHeadLines)}

\* lines 350-352: (?m)^[ \t]*\\chapter\s*(\{[^\n]*\}) matches a heading
\* whose argument closes on the line of the command.
MatchesHeadingLine(item) == item.cmd \in NormalizedCmds /\ item.arglines = 1

\* normalize_headings, lines 347-353: a matched heading is put between
\* "\n\n" and "\n\n", every other line stays.
RECURSIVE NormalizeHeadings(_)
NormalizeHeadings(text) ==
    IF text = <<>> THEN <<>>
    ELSE (IF MatchesHeadingLine(Head(text))
          THEN <<HdItem("blank", 0, 0), Head(text), HdItem("blank", 0, 0)>>
          ELSE <<Head(text)>>)
         \o NormalizeHeadings(Tail(text))

\* collapse_heading_arguments, lines 355-391: the white space in the
\* argument of each heading command, newlines included, becomes one space.
CollapseHeadingArguments(text) ==
    [i \in 1..Len(text) |->
        IF text[i].cmd \in NormalizedCmds \cup {"subsubsection"}
        THEN [text[i] EXCEPT !.arglines = 1]
        ELSE text[i]]

InitHeadings ==
    /\ ntext \in HdTexts
    /\ nfiles = {} /\ nout = ntext /\ npc = "start"
    /\ IdleFlatten /\ IdleBody /\ IdleResolver /\ IdleBatch /\ IdleCli
    /\ IdleEmbed /\ IdleFont /\ IdleWeb /\ IdleLanding

\* main, line 430: body = normalize_headings(body)
NormalizeHeadingsCall ==
    /\ npc = "start"
    /\ nout' = NormalizeHeadings(nout)
    /\ npc' = "collapse"
    /\ UNCHANGED <<ntext, nfiles>>
    /\ UNCHANGED notNormalizer

\* main, line 432: body = collapse_heading_arguments(body)
CollapseHeadingArgumentsCall ==
    /\ npc = "collapse"
    /\ nout' = CollapseHeadingArguments(nout)
    /\ npc' = "done"
    /\ UNCHANGED <<ntext, nfiles>>
    /\ UNCHANGED notNormalizer

NextHeadings ==
    \/ NormalizeHeadingsCall
    \/ CollapseHeadingArgumentsCall

SpecHeadings == InitHeadings /\ [][NextHeadings]_vars

\* ---- C25

IsBlankAt(text, p) == p \in 1..Len(text) /\ text[p].cmd = "blank"

\* C25: after the two functions every \chapter, \section and \subsection
\* has an empty line in front of it and behind it and an argument on one
\* line, also a heading whose argument ran over several lines in the input.
C25_HeadingsSetOffAndOnOneLine ==
    npc = "done" =>
        \A p \in 1..Len(nout) :
            nout[p].cmd \in NormalizedCmds =>
                /\ nout[p].arglines = 1
                /\ IsBlankAt(nout, p - 1)
                /\ IsBlankAt(nout, p + 1)

(***************************************************************************)
(*  tools/postprocess_html_refs.py: build_id_map on headings and other     *)
(*  elements that carry an id                                              *)
(***************************************************************************)

\* Bound: the most tokens of the first page build_id_map reads.
MaxIdTokens == 3

\* Headings with the id x (with a text and without) and y, and elements
\* that are no headings with the ids x and y.
IdTokens ==
    {Heading("x", "<em>Foo</em>"), Heading("x", ""), Heading("y", "Bar"),
     IdEl("el", "x"), IdEl("el", "y")}

\* The directories build_id_map is called on: two pages, no file with a
\* colon left.
IdDirectories ==
    {(Sanitize(NameAB) :> ab) @@ (NameC :> c) :
        ab \in SeqsUpTo(IdTokens, MaxIdTokens), c \in SeqsUpTo(IdTokens, 2)}

\* main stands in front of line 909.
InitIdMap ==
    /\ dir \in IdDirectories
    /\ input_dir = dir
    /\ rename_map = <<>>
    /\ toc_content = ExtractToc(dir)
    /\ search_index = SearchIndexOf(dir)
    /\ id_map = <<>> /\ pages = <<>> /\ pos = 0
    /\ rpc = "idmap" /\ run = 1
    /\ prev_dir = <<>> /\ prev_index = <<>>
    /\ IdleFlatten /\ IdleBody /\ IdleNormalizer /\ IdleBatch /\ IdleCli
    /\ IdleEmbed /\ IdleFont /\ IdleWeb /\ IdleLanding

NextIdMap == BuildIdMapStep

SpecIdMap == InitIdMap /\ [][NextIdMap]_vars

\* ---- C27

IdMapBuilt == rpc # "idmap"

\* The places <<page number, position>> where a token of kind k with id e
\* stands, the pages numbered as sorted() lists them.
PlacesOf(k, e) ==
    {pl \in (1..Len(SortedPages(input_dir))) \X (1..(MaxIdTokens + 1)) :
        LET c == input_dir[SortedPages(input_dir)[pl[1]]] IN
        /\ pl[2] <= Len(c)
        /\ c[pl[2]].k = k /\ c[pl[2]].id = e}

\* The place of S that comes first in the order the pages are read.
FirstPlace(S) ==
    CHOOSE pl \in S : \A q \in S :
        pl[1] < q[1] \/ (pl[1] = q[1] /\ pl[2] <= q[2])

\* The label the claim states for the element at place pl with id e: the
\* text of the nearest heading in front of it on its page, or e.
InheritedLabel(pl, e) ==
    LET c == input_dir[SortedPages(input_dir)[pl[1]]]
        hs == {j \in 1..(pl[2] - 1) : c[j].k = "h"}
    IN  IF hs = {} THEN e
        ELSE IF StripTags(c[Greatest(hs)].text) = "" THEN e
        ELSE StripTags(c[Greatest(hs)].text)

\* C27: an id that only elements other than headings carry is mapped to
\* the file of the first of them, with the text of the nearest heading in
\* front of that element on its page as label, or the id itself when there
\* is no such heading or its text is empty; an id a heading carries is
\* mapped to the file of a heading, whatever elements carry it too.
C27_ElementsInheritNearestHeading ==
    IdMapBuilt =>
        \A e \in {"x", "y"} :
            IF PlacesOf("h", e) # {}
            THEN /\ e \in DOMAIN id_map
                 /\ \E pl \in PlacesOf("h", e) :
                       id_map[e].file = SortedPages(input_dir)[pl[1]]
                 /\ id_map[e].text \in
                       {Or(StripTags(t.text), e) : t \in {h \in IdTokens : h.k = "h" /\ h.id = e}}
            ELSE IF PlacesOf("el", e) # {}
            THEN /\ e \in DOMAIN id_map
                 /\ id_map[e] =
                       [file |-> SortedPages(input_dir)[FirstPlace(PlacesOf("el", e))[1]],
                        text |-> InheritedLabel(FirstPlace(PlacesOf("el", e)), e)]
            ELSE e \notin DOMAIN id_map

\* C27 witness: the index is built from a first page with a heading x and,
\* behind it, an element y, and a second page with elements x and y: y has
\* the text of the heading as label and the file of the first page, and x
\* keeps the entry of the heading.
C27_Witness_ElementBehindHeading ==
    /\ IdMapBuilt
    /\ input_dir[Sanitize(NameAB)] = <<Heading("x", "<em>Foo</em>"), IdEl("el", "y")>>
    /\ input_dir[NameC] = <<IdEl("el", "x"), IdEl("el", "y")>>
    /\ id_map["y"] = [file |-> Sanitize(NameAB), text |-> "Foo"]
    /\ id_map["x"] = [file |-> Sanitize(NameAB), text |-> "Foo"]

(***************************************************************************)
(*  tools/postprocess_html_refs.py: rename_colon_files on a directory      *)
(*  where sanitized names meet                                             *)
(***************************************************************************)

\* Two more names with a colon, ":_.html" and "_:.html"; both become
\* "__.html".
NameColonFirst == <<":", "_", HTML>>
NameColonLast == <<"_", ":", HTML>>

RenameNames == {NameAB, Sanitize(NameAB), NameC, NameColonFirst, NameColonLast}

\* The directories rename_colon_files is called on: any of the names, each
\* file empty or holding a heading.
RenameDirectories ==
    UNION {[S -> {<<>>, <<Heading("x", "")>>}] : S \in SUBSET RenameNames}

\* main stands in front of line 900.
InitRename ==
    /\ dir \in RenameDirectories
    /\ input_dir = dir
    /\ rename_map = <<>> /\ toc_content = <<>> /\ search_index = <<>>
    /\ id_map = <<>> /\ pages = <<>> /\ pos = 0
    /\ rpc = "rename" /\ run = 1
    /\ prev_dir = <<>> /\ prev_index = <<>>
    /\ IdleFlatten /\ IdleBody /\ IdleNormalizer /\ IdleBatch /\ IdleCli
    /\ IdleEmbed /\ IdleFont /\ IdleWeb /\ IdleLanding

NextRename == RenameColonFiles

SpecRename == InitRename /\ [][NextRename]_vars

\* ---- C28

RenameDone == rpc # "rename"

\* C28: rename_colon_files loses no page: no two old names have the same
\* new name, no new name is the name of a file that was there before, and
\* the directory holds as many files after the renaming as before.
C28_RenamingLosesNoPage ==
    RenameDone =>
        /\ \A a, b \in DOMAIN rename_map :
              rename_map[a] = rename_map[b] => a = b
        /\ \A a \in DOMAIN rename_map : rename_map[a] \notin DOMAIN input_dir
        /\ Cardinality(DOMAIN dir) = Cardinality(DOMAIN input_dir)

(***************************************************************************)
(*  tools/postprocess_html_refs.py: rewrite_file on the size markers of    *)
(*  one page                                                               *)
(***************************************************************************)

\* Bound: the most tokens of the page rewrite_file is called on.
MaxSizeTokens == 2

\* The marked contents: a digit and a letter, which all four patterns take.
SizeContents == {"0", "A"}

SizeTokens ==
    {SizeMarker(s, x) : s \in {"huge", "small"}, x \in SizeContents}
        \cup {SizePrefix(s, x) : s \in {"huge", "small"}, x \in SizeContents}
        \cup {Heading("x", "")}

\* main stands in front of line 925 for the first page of a directory of
\* two pages; the second page holds nothing.
InitSizes ==
    /\ \E c \in SeqsUpTo(SizeTokens, MaxSizeTokens) :
          dir = [n \in AnchorPageNames |-> IF n = NameC THEN <<>> ELSE c]
    /\ input_dir = dir
    /\ id_map = BuildIdMap(dir)
    /\ pages = SortedPages(dir)
    /\ pos = 1
    /\ rpc = "rewrite" /\ run = 1
    /\ rename_map = <<>> /\ toc_content = <<>>
    /\ search_index = SearchIndexOf(dir)
    /\ prev_dir = <<>> /\ prev_index = <<>>
    /\ IdleFlatten /\ IdleBody /\ IdleNormalizer /\ IdleBatch /\ IdleCli
    /\ IdleEmbed /\ IdleFont /\ IdleWeb /\ IdleLanding

NextSizes ==
    \/ RewriteFileStep
    \/ AddSidebarStep
    \/ AddSearchScriptStep
    \/ UpdateLinksStep

SpecSizes == InitSizes /\ [][NextSizes]_vars

\* ---- C30

\* C30: where rewrite_file has replaced a size marker, a span stands that
\* carries the class size-huge or size-small, as the marker says, and holds
\* the marked content as it was.
C30_SizeSpanHoldsContent ==
    FirstPageRewritten =>
        \A i \in 1..Len(input_dir[pages[1]]) :
            LET t == input_dir[pages[1]][i] IN
            t.k \in {"sizemark", "sizeprefix"} =>
                dir[pages[1]][i] =
                    Span(IF t.pre = "huge" THEN "\"size-huge\"" ELSE "\"size-small\"",
                         t.text)

(***************************************************************************)
(*  tools/postprocess_html_refs.py: create_search_index on pages that      *)
(*  can and cannot be read                                                 *)
(***************************************************************************)

\* Bound: the most tokens of the first page create_search_index reads.
MaxIndexTokens == 2

Title(text) == Tok("title", "", text, "", <<>>, <<>>)

IndexTokens ==
    {Mark("bad_utf8"), Title("T"), Heading("x", "<em>Foo</em>"), Mark("main_open")}

\* The directories create_search_index is called on: three pages, the
\* first of up to MaxIndexTokens tokens, the others empty, unreadable or
\* holding a heading.
IndexDirectories ==
    {(Sanitize(NameAB) :> ab) @@ (NameC :> c) @@ (NameIndex :> ix) :
        ab \in SeqsUpTo(IndexTokens, MaxIndexTokens),
        c \in {<<>>, <<Mark("bad_utf8")>>, <<Heading("x", "<em>Foo</em>")>>},
        ix \in {<<>>, <<Mark("bad_utf8")>>, <<Heading("x", "<em>Foo</em>")>>}}

\* main stands in front of line 907.
InitIndex ==
    /\ dir \in IndexDirectories
    /\ input_dir = dir
    /\ rename_map = <<>>
    /\ toc_content = ExtractToc(dir)
    /\ search_index = <<>>
    /\ id_map = <<>> /\ pages = <<>> /\ pos = 0
    /\ rpc = "index" /\ run = 1
    /\ prev_dir = <<>> /\ prev_index = <<>>
    /\ IdleFlatten /\ IdleBody /\ IdleNormalizer /\ IdleBatch /\ IdleCli
    /\ IdleEmbed /\ IdleFont /\ IdleWeb /\ IdleLanding

NextIndex == CreateSearchIndex

SpecIndex == InitIndex /\ [][NextIndex]_vars

\* ---- C22

IndexWritten == rpc # "index"

\* The pages of the directory that can be read, in sorted order.
ReadablePages ==
    SelectSeq(NameOrder, LAMBDA n :
        /\ n \in DOMAIN dir /\ IsHtml(n)
        /\ \A i \in 1..Len(dir[n]) : dir[n][i].k # "bad_utf8")

\* C22: search-index.json is one array with exactly one record per page
\* that could be read, in sorted order of the file names, each record with
\* the fields title, url, content, headings and filename; a page that
\* raises is left out and the pages behind it are still there.
C22_OneRecordPerReadablePage ==
    IndexWritten =>
        /\ Len(search_index) = Len(ReadablePages)
        /\ \A i \in 1..Len(search_index) :
              /\ DOMAIN search_index[i] = {"title", "url", "content", "headings", "filename"}
              /\ search_index[i].url = ReadablePages[i]
              /\ search_index[i].filename \o <<HTML>> = ReadablePages[i]

\* C22 witness: the index is written for a directory whose second page
\* cannot be read: it holds the records of the first and the third page.
C22_Witness_BadPageLeftOut ==
    /\ IndexWritten
    /\ RaisesOnRead(dir[NameC])
    /\ Len(search_index) = 2
    /\ search_index[1].url = Sanitize(NameAB)
    /\ search_index[1].title = <<"T">>
    /\ search_index[2].url = NameIndex

(***************************************************************************)
(*                tools/repair_fonts.py: repair_font                       *)
(***************************************************************************)

\* Bound: the highest codepoint of a modelled font.
MaxCodepoint == 3

\* A font is its OS/2 table, [present, first, last] with usFirstCharIndex
\* and usLastCharIndex, and the list of its cmap subtables, each the set
\* of the codepoints it maps.
Font(os2, cmap) == [os2 |-> os2, cmap |-> cmap]

Os2Tables ==
    {[present |-> FALSE, first |-> 0, last |-> 0]}
        \cup [present : {TRUE}, first : 0..MaxCodepoint, last : 0..MaxCodepoint]

Fonts ==
    {Font(o, c) : o \in Os2Tables, c \in SeqsUpTo(SUBSET (1..MaxCodepoint), 2)}

\* get_first_last_char, lines 15-22
Codepoints(font) == UNION {font.cmap[i] : i \in 1..Len(font.cmap)}

GetFirstLastChar(font) ==
    IF Codepoints(font) = {} THEN <<0, 0>>
    ELSE <<Least(Codepoints(font)), Greatest(Codepoints(font))>>

\* ensure_os2, lines 25-71: nothing when the font has the table (lines
\* 26-27), else a new table with the indexes of get_first_last_char.
EnsureOs2(font) ==
    IF font.os2.present THEN font
    ELSE [font EXCEPT !.os2 = [present |-> TRUE,
                               first |-> GetFirstLastChar(font)[1],
                               last |-> GetFirstLastChar(font)[2]]]

InitFont ==
    /\ src_font \in Fonts
    /\ tt = NoFont /\ dst_font = NoFont
    /\ font_pc = "open"
    /\ IdleFlatten /\ IdleBody /\ IdleResolver /\ IdleNormalizer
    /\ IdleBatch /\ IdleCli /\ IdleEmbed /\ IdleWeb /\ IdleLanding

\* line 76: tt = TTFont(str(src), ...)
OpenFont ==
    /\ font_pc = "open"
    /\ tt' = src_font
    /\ font_pc' = "ensure"
    /\ UNCHANGED <<src_font, dst_font>>
    /\ UNCHANGED notFont

\* line 77: ensure_os2(tt)
EnsureOs2Call ==
    /\ font_pc = "ensure"
    /\ tt' = EnsureOs2(tt)
    /\ font_pc' = "save"
    /\ UNCHANGED <<src_font, dst_font>>
    /\ UNCHANGED notFont

\* line 78: tt.save(str(dst))
SaveFont ==
    /\ font_pc = "save"
    /\ dst_font' = tt
    /\ font_pc' = "done"
    /\ UNCHANGED <<src_font, tt>>
    /\ UNCHANGED notFont

NextFont ==
    \/ OpenFont
    \/ EnsureOs2Call
    \/ SaveFont

SpecFont == InitFont /\ [][NextFont]_vars

\* ---- C23

\* C23: the font repair_font has written has an OS/2 table whose first and
\* last character indexes are the least and the greatest codepoint of all
\* cmap subtables of the font, whether the input had the table or not.
C23_IndexesMatchCmap ==
    (font_pc = "done" /\ Codepoints(src_font) # {}) =>
        /\ dst_font.os2.present
        /\ \A c \in Codepoints(dst_font) :
              dst_font.os2.first <= c /\ c <= dst_font.os2.last
        /\ dst_font.os2.first \in Codepoints(dst_font)
        /\ dst_font.os2.last \in Codepoints(dst_font)

(***************************************************************************)
(*                   tools/make_webfonts.py: main                          *)
(***************************************************************************)

\* Three of the source names of `mapping` (lines 19-31), in its order.
WebMapping ==
    <<"mega80-Regular.ttf", "MEGA65GraphicSymbols.otf", "MegaGlacial-Regular.otf">>

WebNames == {WebMapping[i] : i \in 1..Len(WebMapping)}

\* The fonts repair_fonts.py writes to fonts-repaired/ (its lines 86-90).
RepairInputs == {"mega80-Regular.ttf", "MEGA65GraphicSymbols.otf"}

\* The states of fonts-repaired/: not there, or there with repaired copies
\* of some of the fonts of fonts/ that repair_fonts.py handles.
RepairedDirs(present) ==
    {[exists |-> FALSE, files |-> {}]}
        \cup {[exists |-> TRUE, files |-> f] : f \in SUBSET (present \cap RepairInputs)}

InitWeb ==
    /\ fonts \in SUBSET WebNames
    /\ fonts_repaired \in RepairedDirs(fonts)
    /\ web_bad \in SUBSET WebNames
    /\ web_root = "" /\ web_pos = 0
    /\ web_converted = {} /\ web_warned = {}
    /\ web_pc = "start"
    /\ IdleFlatten /\ IdleBody /\ IdleResolver /\ IdleNormalizer
    /\ IdleBatch /\ IdleCli /\ IdleEmbed /\ IdleFont /\ IdleLanding

\* lines 15-17: root is fonts-repaired when that directory exists.
ChooseRoot ==
    /\ web_pc = "start"
    /\ web_root' = IF fonts_repaired.exists THEN "fonts-repaired" ELSE "fonts"
    /\ web_pos' = 1
    /\ web_pc' = "loop"
    /\ UNCHANGED <<fonts, fonts_repaired, web_bad, web_converted, web_warned>>
    /\ UNCHANGED notWeb

\* The files under `root`.
RootFiles == IF web_root = "fonts-repaired" THEN fonts_repaired.files ELSE fonts

AtFont == web_pc = "loop" /\ web_pos <= Len(WebMapping)

\* lines 34-36: src = root / src_name does not exist: continue.
WoffAbsent ==
    /\ AtFont
    /\ WebMapping[web_pos] \notin RootFiles
    /\ web_pos' = web_pos + 1
    /\ UNCHANGED <<fonts, fonts_repaired, web_bad, web_root, web_converted,
                   web_warned, web_pc>>
    /\ UNCHANGED notWeb

\* lines 38-40: ttf_to_woff2 returns, "Converted ..." is printed.
WoffConverted ==
    /\ AtFont
    /\ WebMapping[web_pos] \in RootFiles \ web_bad
    /\ web_converted' = web_converted \cup {WebMapping[web_pos]}
    /\ web_pos' = web_pos + 1
    /\ UNCHANGED <<fonts, fonts_repaired, web_bad, web_root, web_warned, web_pc>>
    /\ UNCHANGED notWeb

\* lines 41-42: ttf_to_woff2 raises, "WARN: ..." is printed.
WoffWarned ==
    /\ AtFont
    /\ WebMapping[web_pos] \in RootFiles \cap web_bad
    /\ web_warned' = web_warned \cup {WebMapping[web_pos]}
    /\ web_pos' = web_pos + 1
    /\ UNCHANGED <<fonts, fonts_repaired, web_bad, web_root, web_converted,
                   web_pc>>
    /\ UNCHANGED notWeb

\* line 33: the mapping is through.
WebEnd ==
    /\ web_pc = "loop" /\ web_pos > Len(WebMapping)
    /\ web_pc' = "done"
    /\ UNCHANGED <<fonts, fonts_repaired, web_bad, web_root, web_pos,
                   web_converted, web_warned>>
    /\ UNCHANGED notWeb

NextWeb ==
    \/ ChooseRoot
    \/ WoffAbsent
    \/ WoffConverted
    \/ WoffWarned
    \/ WebEnd

SpecWeb == InitWeb /\ [][NextWeb]_vars

\* ---- C29

\* C29: when main is through, every font of the mapping that is under
\* fonts/ was converted or warned about, whether fonts-repaired/ is there
\* or not.
C29_NoFontSilentlySkipped ==
    web_pc = "done" =>
        \A n \in WebNames \cap fonts : n \in web_converted \cup web_warned

(***************************************************************************)
(*  tools/postprocess_html_refs.py: rewrite_file on the landing page       *)
(***************************************************************************)

\* Bound: the most tokens of the page in front of line 406.
MaxLandTokens == 3

\* line 406
LandingName == "1-mega65-reference-guide.html"

\* The pieces of the page the injection looks for: </nav>, <body>, </h1>,
\* and other markup.
LandTokens == {"nav_end", "body", "h1_end", "x"}

\* regulatory.tex: not there, not readable as UTF-8, without a minipage
\* block that yields a name or a role, or with entries.
RegulatoryStates == {"missing", "unreadable", "noentries", "entries"}

\* gitinfo.tex: not there, not readable, without a commit line, without a
\* date line, or with both.
GitinfoStates == {"missing", "unreadable", "nocommit", "nodate", "ok"}

\* render_team_from_regulatory, lines 407-444: '' unless entries were
\* found, else the heading and the list.
RenderTeamFromRegulatory ==
    IF regulatory = "entries" THEN <<"team_heading", "team_list">> ELSE <<>>

\* line 456: team_rendered = render_team_from_regulatory() or
\* '<h2>MEGA65 TEAM</h2>'
TeamRendered ==
    IF RenderTeamFromRegulatory = <<>> THEN <<"team_heading">>
    ELSE RenderTeamFromRegulatory

\* render_gitinfo_html, lines 464-476
RenderGitinfoHtml == IF gitinfo = "ok" THEN <<"gitinfo_div">> ELSE <<>>

\* lines 481-505: the heading of the reporting section, the paragraph that
\* announces the version, the version block and the rest.
UpdatesFull ==
    <<"reporting_heading", "version_intro">> \o RenderGitinfoHtml
        \o <<"reporting_rest">>

\* re.sub(pattern, ..., count=1): ins is put behind the first token k of c.
InsertBehindFirst(c, k, ins) ==
    LET ps == {i \in 1..Len(c) : c[i] = k}
    IN  IF ps = {} THEN c
        ELSE SubSeq(c, 1, Least(ps)) \o ins \o SubSeq(c, Least(ps) + 1, Len(c))

\* lines 458-461: the cover behind the first </nav>, else behind <body>.
WithCover(c) ==
    IF \E i \in 1..Len(c) : c[i] = "nav_end"
    THEN InsertBehindFirst(c, "nav_end", <<"cover">>)
    ELSE InsertBehindFirst(c, "body", <<"cover">>)

\* lines 508-513: team and updates behind the first </h1>, else behind the
\* cover.
WithSections(c) ==
    IF \E i \in 1..Len(c) : c[i] = "h1_end"
    THEN InsertBehindFirst(c, "h1_end", TeamRendered \o UpdatesFull)
    ELSE InsertBehindFirst(c, "cover", TeamRendered \o UpdatesFull)

\* lines 406-513
EnrichLanding(c) == IF land_name = LandingName THEN WithSections(WithCover(c)) ELSE c

InitLanding ==
    /\ regulatory \in RegulatoryStates
    /\ gitinfo \in GitinfoStates
    /\ land_name \in {LandingName, "c.html"}
    /\ land_page \in SeqsUpTo(LandTokens, MaxLandTokens)
    /\ land_out = <<>>
    /\ land_pc = "start"
    /\ IdleFlatten /\ IdleBody /\ IdleResolver /\ IdleNormalizer
    /\ IdleBatch /\ IdleCli /\ IdleEmbed /\ IdleFont /\ IdleWeb

\* rewrite_file, lines 406-513, on new_data
EnrichLandingCall ==
    /\ land_pc = "start"
    /\ land_out' = EnrichLanding(land_page)
    /\ land_pc' = "done"
    /\ UNCHANGED <<regulatory, gitinfo, land_name, land_page>>
    /\ UNCHANGED notLanding

NextLanding == EnrichLandingCall

SpecLanding == InitLanding /\ [][NextLanding]_vars

\* ---- C21

InLandOut(k) == \E i \in 1..Len(land_out) : land_out[i] = k

\* C21: when regulatory.tex is missing or yields nothing, neither the
\* heading nor the list of the team section is on the landing page; when
\* gitinfo.tex is missing or yields nothing, the version block is not on
\* it.
C21_SectionOmittedWithoutData ==
    land_pc = "done" =>
        /\ regulatory # "entries" =>
              ~InLandOut("team_heading") /\ ~InLandOut("team_list")
        /\ gitinfo # "ok" => ~InLandOut("gitinfo_div")

====
